---- MODULE Spec2Model ----
(***************************************************************************)
(* The asynchronous organization-onboarding protocol of the identity       *)
(* service: the four NATS consumers of organization/consumer.go and the    *)
(* onboarding trigger of Application.addOrganization.                      *)
(*                                                                         *)
(* Conventions.  A Go pointer is a sequence of length 0 (nil) or 1.        *)
(* A JSON value of a message is a record [t, v]: its JSON type and value.  *)
(* A hex string is a sequence of digits 0..15; 16 stands for a character   *)
(* that is no hex digit.  A byte string is a sequence of 0..255.           *)
(* Each handler is an operator from the delivered message, the current     *)
(* state and the outcomes of its collaborator calls to a result record;    *)
(* the Deliver* actions apply it.  The variable last records the most      *)
(* recent operation: its message, its terminal signal, its diagnostic and  *)
(* the trace of collaborator calls it made.                                *)
(***************************************************************************)
EXTENDS Integers, Sequences, FiniteSets, TLC

VARIABLES
    organizations,   \* database: organization id -> pointer to its row
    vaults,          \* Vault Service: organization id -> its vaults, in order
    wallets,         \* Ledger Service: organization id -> HD wallets created
    appOrgs,         \* database: organizations associated with the application
    appConfig,       \* database: the baselined entry of the application's config
    fanout,          \* organization id -> the goroutines its association started
    vaultCreations,  \* organization id -> deliveries whose CreateVault returned no error
    broker,          \* a message of the stream, its ack-wait timer and its handlings
    last,            \* the most recent operation
    users,           \* user id -> the row of the users table, or Nil
    issued           \* the user tokens the authentication has vended

vars == <<organizations, vaults, wallets, appOrgs, appConfig, fanout, vaultCreations,
          broker, last, users, issued>>

----------------------------------------------------------------------------
(* Bounds *)

NumOrgs == 2
MaxVaults == 2
MaxKeys == 2
MaxContracts == 2
MaxWallets == 1
MaxAssociations == 2
MaxPublishFailures == 1
NumWorkers == 2
MaxDeliveries == 2
MaxUsers == 2
MaxListed == 3
MaxOpenTransactions == 1
MaxResetTokens == 2

OrgIds == 1..NumOrgs

\* the organizations that can be associated with the application
AppOrgIds == 1..MaxAssociations

----------------------------------------------------------------------------
(* Pointers, JSON values, strings *)

Nil == <<>>
Ptr(x) == <<x>>
Deref(p) == p[1]

JString(v) == [t |-> "string", v |-> v]
JBool(v) == [t |-> "bool", v |-> v]
JNumber(zero) == [t |-> "number", v |-> zero]
JAbsent(zero) == [t |-> "absent", v |-> zero]

\* value.(string): the type assertion of a JSON value
IsString(j) == j.t = "string"

\* value.(bool)
IsBool(j) == j.t = "bool"

\* common.StringOrNil: nil for the empty string
StringOrNil(s) == IF s = "" THEN Nil ELSE Ptr(s)

\* common.StringOrNil on a hex string
HexStringOrNil(h) == IF h = <<>> THEN Nil ELSE Ptr(h)

\* an organization's metadata document without address, domain and
\* messaging_endpoint strings
NoMetadata == [address |-> Nil, domain |-> Nil, messaging_endpoint |-> Nil]

\* strings.ToLower on the key names and the email addresses of the model
ToLower(s) ==
    CASE s = "Ekho Signing" -> "ekho signing"
      [] s = "EKHO SIGNING" -> "ekho signing"
      [] s = "A@X.io" -> "a@x.io"
      [] OTHER -> s

----------------------------------------------------------------------------
(* Messages: the JSON documents delivered on the four subjects *)

NoId == JAbsent(0)
NoHex == JAbsent(<<>>)
NoStr == JAbsent("")
NoBool == JAbsent(FALSE)

\* a JSON object with the given fields; a field no subject uses is absent
Msg(org, peer, pk, sig, sk, sspec, app, upd) ==
    [json |-> TRUE, organization_id |-> org, peer_organization_id |-> peer,
     public_key |-> pk, signature |-> sig, signing_key |-> sk,
     signing_spec |-> sspec, application_id |-> app, update_registry |-> upd]

\* a payload that json.Unmarshal rejects
NotJSON == [Msg(NoId, NoId, NoHex, NoHex, NoHex, NoStr, NoId, NoBool) EXCEPT !.json = FALSE]

\* what an organization_id or peer_organization_id field can hold
IdValues == {JString(o) : o \in OrgIds} \cup {JNumber(0), NoId}

CreatedMsg(org) == Msg(org, NoId, NoHex, NoHex, NoHex, NoStr, NoId, NoBool)

CreatedMessages == {NotJSON} \cup {CreatedMsg(org) : org \in IdValues}

----------------------------------------------------------------------------
(* Service tokens and the trace of collaborator calls *)

\* a token is scoped to an organization or an application (sub, id), carries
\* a scope string, and was vended by the handler or read from the database
NoToken == [sub |-> "none", id |-> 0, scope |-> "", origin |-> "none"]

\* token.Token{OrganizationID: &organization.ID}
OrgToken(o) == [sub |-> "organization", id |-> o, scope |-> "", origin |-> "vend"]

\* token.Token{ApplicationID: &applicationUUID, Scope: "offline_access"}
AppToken(a) == [sub |-> "application", id |-> a, scope |-> "offline_access", origin |-> "vend"]

\* a row of db.Where("tokens.application_id = ?", applicationID).Find(&tokens)
StoredToken(a, row) == [sub |-> "application", id |-> a, scope |-> row.scope, origin |-> "db"]

Call(name, token, arg, ok) == [call |-> name, token |-> token, arg |-> arg, ok |-> ok]

\* the calls of a trace to one collaborator operation
CallsTo(calls, name) == SelectSeq(calls, LAMBDA c : c.call = name)

\* the events a trace handed to the broker, and those the broker accepted
PublishCalls(calls) == CallsTo(calls, "Publish")
Published(calls) == SelectSeq(calls, LAMBDA c : c.call = "Publish" /\ c.ok)

----------------------------------------------------------------------------
(* Results of a handler *)

\* the handler returned after msg.Ack(), msg.Nak() or neither, leaving the
\* database and the collaborators as they are
Result(outcome, diag, calls) ==
    [outcome |-> outcome, diag |-> diag, calls |-> calls, recovered |-> FALSE,
     organizations |-> organizations, vaults |-> vaults, wallets |-> wallets]

\* the deferred recover() of every handler: a panic ends in msg.Nak()
Unrecovered(calls) == [Result("None", "panic", calls) EXCEPT !.recovered = TRUE]

Recovered(calls) == [Result("Nak", "panic", calls) EXCEPT !.recovered = TRUE]

----------------------------------------------------------------------------
(* Database and Vault Service *)

\* the row a handler would see that took the organization of the event for
\* granted
FindOrganizationAssumed(organizationID) ==
    Ptr([name |-> Ptr("acme"), metadata |-> NoMetadata])

\* db.Where("id = ?", organizationID).Find(&organization): the row, or a
\* zero Organization (ID == uuid.Nil) when there is none
FindOrganization(organizationID) == organizations[organizationID]

\* vault.CreateVault: the Vault Service appends a vault to the organization's
VaultCreateVaultIfAbsent(vs, o, name) ==
    IF vs[o] = <<>> THEN [vs EXCEPT ![o] = Append(@, [name |-> name, keys |-> <<>>])] ELSE vs

VaultCreateVault(vs, o, name) ==
    [vs EXCEPT ![o] = Append(@, [name |-> name, keys |-> <<>>])]

----------------------------------------------------------------------------
(* Vault Provisioner: consumeCreatedOrganizationMsg *)

\* if err == nil { msg.Ack() } else { msg.Nak() }
CreateVaultSignalAckAnyway(ok) == "Ack"

CreateVaultSignal(ok) == IF ok THEN "Ack" ELSE "Nak"

CreatedFailPoints == {"none", "Vend", "CreateVault"}

\* a provisioner that puts an exchange signing key in the vault it creates
consumeCreatedOrganizationMsgWithKey(msg, fail) ==
    IF ~msg.json THEN Result("Nak", "unmarshal", <<>>)
    ELSE IF ~IsString(msg.organization_id) THEN Result("Nak", "organization_id", <<>>)
    ELSE
      LET organizationID == msg.organization_id.v
          organization == FindOrganization(organizationID)
          name == <<"acme", " vault">>
          signingKey == [id |-> 17, name |-> Ptr("ekho signing"), spec |-> Ptr("Ed25519"),
                         address |-> Nil, public_key |-> Ptr(<<1, 2>>)]
          created == Call("CreateVault", OrgToken(organizationID), name, TRUE)
      IN
      IF organization = Nil \/ fail # "none" THEN Result("Nak", "organization", <<>>)
      ELSE [Result("Ack", "", <<created>>) EXCEPT
               !.vaults = [vaults EXCEPT
                              ![organizationID] =
                                  Append(@, [name |-> name, keys |-> <<signingKey>>])]]

\* fail names the collaborator call that returns an error in this delivery
consumeCreatedOrganizationMsg(msg, fail) ==
    IF ~msg.json THEN Result("Nak", "unmarshal", <<>>)
    ELSE IF ~IsString(msg.organization_id) THEN Result("Nak", "organization_id", <<>>)
    ELSE
      LET organizationID == msg.organization_id.v
          organization == FindOrganization(organizationID)
          c1 == <<Call("db.Find", NoToken, organizationID, TRUE)>>
      IN
      IF organization = Nil THEN Result("Nak", "organization", c1)
      ELSE
        LET orgToken == OrgToken(organizationID)
            c2 == Append(c1, Call("Vend", orgToken, organizationID, fail # "Vend"))
        IN
        IF fail = "Vend" THEN Result("Nak", "token", c2)
        ELSE IF Deref(organization).name = Nil THEN Recovered(c2)
        ELSE
          LET name == <<Deref(Deref(organization).name), " vault">>
              ok == fail # "CreateVault"
              c3 == Append(c2, Call("CreateVault", orgToken, name, ok))
              r == Result(CreateVaultSignal(ok), IF ok THEN "" ELSE "vault", c3)
          IN
          IF ok THEN [r EXCEPT !.vaults = VaultCreateVault(vaults, organizationID, name)]
          ELSE r

----------------------------------------------------------------------------
(* Hex strings, keys and signatures *)

\* hex.DecodeString: the bytes of the leading well-formed digit pairs
RECURSIVE HexBytes(_)
HexBytes(h) ==
    IF Len(h) < 2 \/ h[1] > 15 \/ h[2] > 15 THEN <<>>
    ELSE <<16 * h[1] + h[2]>> \o HexBytes(SubSeq(h, 3, Len(h)))

\* hex.DecodeString returns no error
HexOk(h) == Len(h) % 2 = 0 /\ \A i \in 1..Len(h) : h[i] <= 15

\* hex.EncodeToString
RECURSIVE HexEncodeToString(_)
HexEncodeToString(b) ==
    IF b = <<>> THEN <<>>
    ELSE <<b[1] \div 16, b[1] % 16>> \o HexEncodeToString(Tail(b))

\* a vault.Key: ID, and the pointers Name, Spec, Address, PublicKey
Key(id, name, spec, address, pk) ==
    [id |-> id, name |-> name, spec |-> spec, address |-> address, public_key |-> pk]

\* the keys in all vaults of the Vault Service
TotalKeys(vs) ==
    LET RECURSIVE Sum(_, _)
        Sum(o, i) == IF o > NumOrgs THEN 0
                     ELSE IF i > Len(vs[o]) THEN Sum(o + 1, 1)
                     ELSE Len(vs[o][i].keys) + Sum(o, i + 1)
    IN Sum(1, 1)

\* the id the Vault Service gives the next key of a vault: the vault and
\* the position of the key in it
NextKeyId(vs, o, v) == 16 * v + Len(vs[o][v].keys) + 1

\* vault.CreateKey: the new key is appended to the keys of the vault
VaultCreateKeyReplacing(vs, o, v, key) ==
    [vs EXCEPT ![o][v].keys = <<key>>]

VaultCreateKey(vs, o, v, key) ==
    [vs EXCEPT ![o][v].keys = Append(@, key)]

\* vault.SignMessage: the signature of a message by the key of a vault; it
\* is a function of the signing key and the message
Signature(keyId, message) == <<keyId>> \o message

\* for _, key := range keys { if key.Name != nil &&
\*     strings.ToLower(*key.Name) == "ekho signing" { signingKey = key; break } }
IsSigningKeyAnyName(key) == key.name # Nil

IsSigningKey(key) == key.name # Nil /\ ToLower(Deref(key.name)) = "ekho signing"

\* the pointer signingKey after the loop: the first match, or nil
ResolveSigningKey(keys) ==
    LET hits == SelectSeq(keys, IsSigningKey)
    IN IF hits = <<>> THEN Nil ELSE Ptr(hits[1])

----------------------------------------------------------------------------
(* Key-Exchange Initiator: consumeOrganizationImplicitKeyExchangeInitMsg *)

KexInitMsg(org, peer) == Msg(org, peer, NoHex, NoHex, NoHex, NoStr, NoId, NoBool)

KexInitMessages == {NotJSON} \cup {KexInitMsg(org, peer) : org \in IdValues, peer \in IdValues}

KexInitFailPoints ==
    {"none", "Vend", "ListVaults", "ListKeys", "CreateKey", "SignMessage", "Publish"}

\* the PublicKey of the key vault.CreateKey returns
CreateKeyResponses == {Nil, Ptr(<<12, 13>>)}

\* natsutil.NatsJetstreamPublish(...); msg.Ack(): the result of the publish
\* is discarded
PublishSignal(ok) == "Ack"

\* vault.SignMessage(token, vaultID, c25519Key.ID.String(), message, ...):
\* the key the handler names as the signer
SigningKeyID(c25519Key, signingKey) == c25519Key.id

\* the part of the handler that follows a resolved signing key
InitiateExchange(organizationID, peerOrganizationID, orgToken, signingKey, calls, fail, pk) ==
    LET c25519Key == Key(NextKeyId(vaults, organizationID, 1), Ptr("ekho single-use c25519 key exchange"),
                         Ptr("C25519"), Nil, pk)
        c1 == Append(calls, Call("CreateKey", orgToken, c25519Key, fail # "CreateKey"))
    IN
    IF fail = "CreateKey" THEN Result("Nak", "c25519 key", c1)
    ELSE
      LET vs == VaultCreateKey(vaults, organizationID, 1, c25519Key) IN
      IF c25519Key.public_key = Nil THEN [Recovered(c1) EXCEPT !.vaults = vs]
      ELSE
        LET c25519PublicKeyRaw == HexBytes(Deref(c25519Key.public_key))
            signer == SigningKeyID(c25519Key, signingKey)
            c2 == Append(c1, Call("SignMessage", orgToken,
                                  <<signer, c25519PublicKeyRaw>>, fail # "SignMessage"))
        IN
        IF fail = "SignMessage" THEN [Result("Nak", "signature", c2) EXCEPT !.vaults = vs]
        ELSE IF signingKey.public_key = Nil \/ signingKey.spec = Nil
        THEN [Recovered(c2) EXCEPT !.vaults = vs]
        ELSE
          LET c25519PublicKeySigned == Signature(signer, c25519PublicKeyRaw)
              payload == Msg(JString(organizationID), JString(peerOrganizationID),
                             JString(Deref(c25519Key.public_key)),
                             JString(HexEncodeToString(c25519PublicKeySigned)),
                             JString(Deref(signingKey.public_key)),
                             JString(Deref(signingKey.spec)), NoId, NoBool)
              ok == fail # "Publish"
              c3 == Append(c2, Call("Publish", NoToken,
                                    <<"ident.organization.keys.exchange.complete", payload>>, ok))
          IN [Result(PublishSignal(ok), "", c3) EXCEPT !.vaults = vs]

consumeOrganizationImplicitKeyExchangeInitMsg(msg, fail, pk) ==
    IF ~msg.json THEN Result("Nak", "unmarshal", <<>>)
    ELSE IF ~IsString(msg.organization_id) THEN Result("Nak", "organization_id", <<>>)
    ELSE IF ~IsString(msg.peer_organization_id)
    THEN Result("Nak", "peer_organization_id", <<>>)
    ELSE
      LET organizationID == msg.organization_id.v
          peerOrganizationID == msg.peer_organization_id.v
          organization == FindOrganization(organizationID)
          c1 == <<Call("db.Find", NoToken, organizationID, TRUE)>>
      IN
      IF organization = Nil THEN Result("Nak", "organization", c1)
      ELSE
        LET orgToken == OrgToken(organizationID)
            c2 == Append(c1, Call("Vend", orgToken, organizationID, fail # "Vend"))
        IN
        IF fail = "Vend" THEN Result("Nak", "token", c2)
        ELSE
          LET orgVaults == vaults[organizationID]
              c3 == Append(c2, Call("ListVaults", orgToken, organizationID,
                                    fail # "ListVaults"))
          IN
          IF fail = "ListVaults" THEN Result("Nak", "vaults", c3)
          ELSE IF Len(orgVaults) > 0
          THEN
            LET orgVault == orgVaults[1]
                keys == orgVault.keys
                c4 == Append(c3, Call("ListKeys", orgToken, <<1, "">>, fail # "ListKeys"))
            IN
            IF fail = "ListKeys" THEN Result("Nak", "keys", c4)
            ELSE
              LET signingKey == ResolveSigningKey(keys) IN
              IF signingKey # Nil
              THEN InitiateExchange(organizationID, peerOrganizationID, orgToken,
                                    Deref(signingKey), c4, fail, pk)
              ELSE Result("Nak", "signing key", c4)
          ELSE Result("Nak", "signing key", c3)

----------------------------------------------------------------------------
(* Key-Exchange Responder: consumeOrganizationImplicitKeyExchangeCompleteMsg *)

\* what a hex-string field of a completion event can hold: a hex string, a
\* string that is not hex (a character that is no digit, an odd length), or
\* no string
PublicKeyValues == {JString(<<10, 11>>), JString(<<16, 1>>), NoHex}
SignatureValues == {JString(<<2, 10, 11>> \o <<0>>), JString(<<1>>), NoHex}

KexCompleteMessages ==
    {NotJSON} \cup
    {Msg(org, peer, pk, sig, sk, JString("Ed25519"), NoId, NoBool) :
        org \in IdValues, peer \in {JString(1), NoId},
        pk \in PublicKeyValues, sig \in SignatureValues, sk \in {JString(<<1, 2>>), NoHex}}

KexCompleteFailPoints == {"none", "Vend", "ListVaults", "ListKeys"}

\* err = errors.New("the CreateDiffieHellmanSharedSecret method is not
\* exposed by the vault API yet"): the result of the derivation, nil on success
CreateDiffieHellmanSharedSecretSupported(signingKey, peerPubKey, peerSigningKey, sig) == Nil

CreateDiffieHellmanSharedSecretErr(signingKey, peerPubKey, peerSigningKey, sig) == Ptr("unsupported")

\* if err == nil { msg.Ack() } else { msg.Nak() }

SharedSecretSignal(err) == IF err = Nil THEN "Ack" ELSE "Nak"

consumeOrganizationImplicitKeyExchangeCompleteMsg(msg, fail) ==
    IF ~msg.json THEN Result("Nak", "unmarshal", <<>>)
    ELSE IF ~IsString(msg.organization_id) THEN Result("Nak", "organization_id", <<>>)
    ELSE IF ~IsString(msg.peer_organization_id)
    THEN Result("Nak", "peer_organization_id", <<>>)
    ELSE IF ~IsString(msg.public_key) THEN Result("Nak", "public_key", <<>>)
    ELSE IF ~IsString(msg.signing_key) THEN Result("Nak", "signing_key", <<>>)
    ELSE IF ~IsString(msg.signature) THEN Result("Nak", "signature", <<>>)
    ELSE
      LET organizationID == msg.organization_id.v
          organization == FindOrganization(organizationID)
          c1 == <<Call("db.Find", NoToken, organizationID, TRUE)>>
      IN
      IF organization = Nil THEN Result("Nak", "organization", c1)
      ELSE
        LET orgToken == OrgToken(organizationID)
            c2 == Append(c1, Call("Vend", orgToken, organizationID, fail # "Vend"))
        IN
        IF fail = "Vend" THEN Result("Nak", "token", c2)
        ELSE
          LET orgVaults == vaults[organizationID]
              c3 == Append(c2, Call("ListVaults", orgToken, organizationID,
                                    fail # "ListVaults"))
          IN
          IF fail = "ListVaults" THEN Result("Nak", "vaults", c3)
          ELSE IF Len(orgVaults) > 0
          THEN
            LET keys == orgVaults[1].keys
                c4 == Append(c3, Call("ListKeys", orgToken, <<1, "">>, fail # "ListKeys"))
            IN
            IF fail = "ListKeys" THEN Result("Nak", "keys", c4)
            ELSE
              LET signingKey == ResolveSigningKey(keys) IN
              IF ~HexOk(msg.public_key.v) THEN Result("Nak", "public_key hex", c4)
              ELSE IF ~HexOk(msg.signature.v) THEN Result("Nak", "signature hex", c4)
              ELSE IF signingKey # Nil
              THEN
                LET err == CreateDiffieHellmanSharedSecretErr(
                               Deref(signingKey), HexBytes(msg.public_key.v),
                               msg.signing_key.v, HexBytes(msg.signature.v))
                IN Result(SharedSecretSignal(err),
                          IF err = Nil THEN "" ELSE "shared secret", c4)
              ELSE Result("Nak", "signing key", c4)
          ELSE Result("Nak", "signing key", c3)

----------------------------------------------------------------------------
(* Registration Coordinator: consumeOrganizationRegistrationMsg *)

organizationRegistrationMethod == "registerOrg"
organizationUpdateRegistrationMethod == "updateOrg"
contractTypeOrgRegistry == "organization-registry"
contractTypeERC1820Registry == "erc1820-registry"

\* application 1 exists; an application_id of 0 is a string that is no UUID
AppIdValues == {JString(1), JString(0), NoId}

\* update_registry: absent, a boolean, or the string "true"
UpdateValues == {NoBool, JBool(TRUE), JBool(FALSE), [t |-> "string", v |-> TRUE]}

RegistrationMsg(org, app, upd) == Msg(org, NoId, NoHex, NoHex, NoHex, NoStr, app, upd)

RegistrationMessages ==
    {NotJSON} \cup
    {RegistrationMsg(org, app, NoBool) : org \in IdValues, app \in AppIdValues} \cup
    {RegistrationMsg(JString(org), JString(1), upd) : org \in OrgIds, upd \in UpdateValues}

\* uuid.FromString(applicationID) returns no error
IsUUIDAnyString(applicationID) == TRUE

IsUUID(applicationID) == applicationID # 0

RegistrationFailPoints ==
    {"none", "Vend", "ListVaults", "ListKeys.secp256k1", "ListKeys.babyJubJub",
     "VendApplication", "ListContracts", "VendWallet", "CreateWallet",
     "GetContractDetails", "ExecuteContract", "Update"}

\* the rows of the tokens table for the application: none, or one whose
\* Token is set or nil, with or without the offline_access scope
StoredTokens ==
    { <<>>,
      <<[jwt |-> Ptr("jwt"), scope |-> "offline_access"]>>,
      <<[jwt |-> Ptr("jwt"), scope |-> ""]>>,
      <<[jwt |-> Nil, scope |-> "offline_access"]>> }

\* the contracts the Ledger Service lists for an application: Type and
\* Address of each, as nchain.GetContractDetails returns them
ContractKinds ==
    { [type |-> Ptr("erc1820-registry"), address |-> Ptr("0xE")],
      [type |-> Ptr("organization-registry"), address |-> Ptr("0xR")],
      [type |-> Ptr("organization-registry"), address |-> Nil] }

ContractLists == UNION {[1..n -> ContractKinds] : n \in 0..MaxContracts}

\* vault.ListKeys(token, vaultID, {"spec": spec}): the keys of that spec
ListKeys(keys, spec) == SelectSeq(keys, LAMBDA k : k.spec = Ptr(spec))

\* if len(keys) > 0 { key := keys[0]; if key.Address != nil {
\*     orgAddress = common.StringOrNil(*key.Address) } }
ResolveAddress(keys) ==
    IF Len(keys) > 0 /\ keys[1].address # Nil
    THEN StringOrNil(Deref(keys[1].address)) ELSE Nil

\* the same for key.PublicKey of the first babyJubJub key
ResolveZeroKnowledgePublicKey(keys) ==
    IF Len(keys) > 0 /\ keys[1].public_key # Nil
    THEN HexStringOrNil(Deref(keys[1].public_key)) ELSE Nil

\* if v, ok := metadata[field].(string); ok { p = common.StringOrNil(v) }
MetadataStringAsIs(metadata, field) == metadata[field]

MetadataString(metadata, field) ==
    IF metadata[field] = Nil THEN Nil ELSE StringOrNil(Deref(metadata[field]))

\* if _, addrOk := metadata["address"].(string); !addrOk { ...;
\*     updateOrgMetadata = true }
AddressMissingAlways(metadata) == TRUE

AddressMissing(metadata) == metadata.address = Nil

\* updateRegistry := false; if update, updateOk :=
\*     params["update_registry"].(bool); updateOk { updateRegistry = update }
UpdateRegistry(msg) == IsBool(msg.update_registry) /\ msg.update_registry.v

\* method := organizationRegistrationMethod; if updateRegistry { method = ... }
RegistrationMethodAlwaysRegister(updateRegistry) == organizationRegistrationMethod

RegistrationMethod(updateRegistry) ==
    IF updateRegistry THEN organizationUpdateRegistrationMethod
    ELSE organizationRegistrationMethod

\* the outcome of a broadcast failure: the handler logs it and returns
\* without msg.Ack() and without msg.Nak()
BroadcastFailureSignal == "None"

\* the index of the first listed contract of a declared type
FirstOfType(contracts, type) ==
    LET hits == {i \in 1..Len(contracts) : contracts[i].type = Ptr(type)}
    IN IF hits = {} THEN 0 ELSE CHOOSE i \in hits : \A j \in hits : i <= j

\* the index of the last listed contract of a declared type, 0 if there is none
LastOfType(contracts, type) ==
    LET hits == {i \in 1..Len(contracts) : contracts[i].type = Ptr(type)}
    IN IF hits = {} THEN 0 ELSE CHOOSE i \in hits : \A j \in hits : j <= i

\* organization.ParseMetadata(): the metadata document of the row
ParseMetadata(organization) == organization.metadata

\* organization.setMetadata(metadata); organization.Update(): the row with
\* the amended metadata replaces the stored one
OrganizationUpdate(orgs, organizationID, organization, metadata) ==
    [orgs EXCEPT ![organizationID] = Ptr([organization EXCEPT !.metadata = metadata])]

\* lines 512-654: parse the event, resolve the organization, its keys and
\* its metadata, and require the four attributes.  done says that the
\* handler has returned; otherwise the resolved values, and the row as the
\* handler read it, are handed on.
ResolveRegistration(msg, fail) ==
    LET Stop(r) == [done |-> TRUE, result |-> r, organizationID |-> 0, applicationID |-> 0,
                    orgAddress |-> Nil, orgDomain |-> Nil, orgMessagingEndpoint |-> Nil,
                    orgZeroKnowledgePublicKey |-> Nil, metadata |-> NoMetadata,
                    updateOrgMetadata |-> FALSE, organization |-> Nil]
    IN
    IF ~msg.json THEN Stop(Result("Nak", "unmarshal", <<>>))
    ELSE IF ~IsString(msg.organization_id) THEN Stop(Result("Nak", "organization_id", <<>>))
    ELSE IF ~IsString(msg.application_id) THEN Stop(Result("Nak", "application_id", <<>>))
    ELSE IF ~IsUUID(msg.application_id.v) THEN Stop(Result("Nak", "application uuid", <<>>))
    ELSE
      LET organizationID == msg.organization_id.v
          organization == FindOrganization(organizationID)
          c1 == <<Call("db.Find", NoToken, organizationID, TRUE)>>
      IN
      IF organization = Nil THEN Stop(Result("Nak", "organization", c1))
      ELSE
        LET orgToken == OrgToken(organizationID)
            c2 == Append(c1, Call("Vend", orgToken, organizationID, fail # "Vend"))
        IN
        IF fail = "Vend" THEN Stop(Result("Nak", "token", c2))
        ELSE
          LET orgVaults == vaults[organizationID]
              c3 == Append(c2, Call("ListVaults", orgToken, organizationID,
                                    fail # "ListVaults"))
              hasVault == Len(orgVaults) > 0
              c4 == IF hasVault
                    THEN Append(c3, Call("ListKeys", orgToken, <<1, "secp256k1">>,
                                         fail # "ListKeys.secp256k1"))
                    ELSE c3
              c5 == IF hasVault
                    THEN Append(c4, Call("ListKeys", orgToken, <<1, "babyJubJub">>,
                                         fail # "ListKeys.babyJubJub"))
                    ELSE c3
          IN
          IF fail = "ListVaults" THEN Stop(Result("Nak", "vaults", c3))
          ELSE IF hasVault /\ fail = "ListKeys.secp256k1"
          THEN Stop(Result("Nak", "secp256k1 keys", c4))
          ELSE IF hasVault /\ fail = "ListKeys.babyJubJub"
          THEN Stop(Result("Nak", "babyJubJub keys", c5))
          ELSE
            LET orgAddress ==
                  IF hasVault THEN ResolveAddress(ListKeys(orgVaults[1].keys, "secp256k1"))
                  ELSE Nil
                orgZeroKnowledgePublicKey ==
                  IF hasVault
                  THEN ResolveZeroKnowledgePublicKey(ListKeys(orgVaults[1].keys, "babyJubJub"))
                  ELSE Nil
                parsed == ParseMetadata(Deref(organization))
                orgMessagingEndpoint == MetadataString(parsed, "messaging_endpoint")
                updateOrgMetadata == AddressMissing(parsed)
                metadata == IF updateOrgMetadata
                            THEN [parsed EXCEPT !.address = orgAddress] ELSE parsed
                orgDomain == MetadataString(parsed, "domain")
            IN
            IF orgAddress = Nil THEN Stop(Result("Nak", "address", c5))
            ELSE IF orgDomain = Nil THEN Stop(Result("Nak", "domain", c5))
            ELSE IF orgMessagingEndpoint = Nil
            THEN Stop(Result("Nak", "messaging_endpoint", c5))
            ELSE IF orgZeroKnowledgePublicKey = Nil
            THEN Stop(Result("Nak", "zero-knowledge public key", c5))
            ELSE [done |-> FALSE, result |-> Result("None", "", c5),
                  organizationID |-> organizationID, applicationID |-> msg.application_id.v,
                  orgAddress |-> orgAddress, orgDomain |-> orgDomain,
                  orgMessagingEndpoint |-> orgMessagingEndpoint,
                  orgZeroKnowledgePublicKey |-> orgZeroKnowledgePublicKey,
                  metadata |-> metadata, updateOrgMetadata |-> updateOrgMetadata,
                  organization |-> organization]

\* organization.Update() at line 779: its result is discarded and msg.Ack()
\* follows
UpdateSignalChecked(ok) == IF ok THEN "Ack" ELSE "Nak"

UpdateSignal(ok) == "Ack"

\* lines 656-788: the application token, the contracts, the wallet, the
\* execution and the trailing update of the row the handler read.  nth is the listed contract whose
\* details cannot be fetched when fail is "GetContractDetails".
SubmitRegistration(msg, a, fail, nth, tokens, contracts) ==
    LET organizationID == a.organizationID
        organization == Deref(a.organization)
        vended == Len(tokens) = 0
        c1 == IF vended
              THEN Append(a.result.calls, Call("Vend", AppToken(a.applicationID),
                                               a.applicationID, fail # "VendApplication"))
              ELSE a.result.calls
    IN
    IF vended /\ fail = "VendApplication" THEN Result("Nak", "application token", c1)
    ELSE IF ~vended /\ tokens[1].jwt = Nil THEN Recovered(c1)
    ELSE
      LET jwtToken == IF vended THEN AppToken(a.applicationID)
                      ELSE StoredToken(a.applicationID, tokens[1])
          c2 == Append(c1, Call("ListContracts", jwtToken, a.applicationID,
                                fail # "ListContracts"))
          orgToken == OrgToken(organizationID)
          c3 == Append(c2, Call("Vend", orgToken, organizationID, fail # "VendWallet"))
          orgWalletID == wallets[organizationID] + 1
          c4 == Append(c3, Call("CreateWallet", orgToken, orgWalletID, fail # "CreateWallet"))
          ws == [wallets EXCEPT ![organizationID] = orgWalletID]
          failing == fail = "GetContractDetails" /\ nth <= Len(contracts)
          fetched == IF failing THEN nth ELSE Len(contracts)
          c5 == c4 \o [i \in 1..fetched |->
                         Call("GetContractDetails", jwtToken, i, ~(failing /\ i = nth))]
          erc1820 == LastOfType(contracts, contractTypeERC1820Registry)
          orgRegistry == LastOfType(contracts, contractTypeOrgRegistry)
      IN
      IF fail = "ListContracts" THEN Result("Nak", "contracts", c2)
      ELSE IF fail = "VendWallet" THEN Result("Nak", "wallet token", c3)
      ELSE IF fail = "CreateWallet" THEN Result("Nak", "wallet", c4)
      ELSE IF failing THEN [Result("Nak", "contract details", c5) EXCEPT !.wallets = ws]
      ELSE IF erc1820 = 0 \/ contracts[erc1820].address = Nil
      THEN [Result("Nak", "erc1820 registry", c5) EXCEPT !.wallets = ws]
      ELSE IF orgRegistry = 0 \/ contracts[orgRegistry].address = Nil
      THEN [Result("Nak", "organization registry", c5) EXCEPT !.wallets = ws]
      ELSE IF organization.name = Nil THEN [Recovered(c5) EXCEPT !.wallets = ws]
      ELSE
        LET method == RegistrationMethod(UpdateRegistry(msg))
            execution == [contract |-> orgRegistry, wallet_id |-> orgWalletID,
                          method |-> method,
                          params |-> <<Deref(a.orgAddress), Deref(organization.name),
                                       Deref(a.orgDomain), Deref(a.orgMessagingEndpoint),
                                       Deref(a.orgZeroKnowledgePublicKey), "{}">>,
                          value |-> 0]
            c6 == Append(c5, Call("ExecuteContract", jwtToken, execution,
                                  fail # "ExecuteContract"))
            c7 == IF a.updateOrgMetadata
                  THEN Append(c6, Call("Update", NoToken, organizationID, fail # "Update"))
                  ELSE c6
        IN
        IF fail = "ExecuteContract"
        THEN [Result(BroadcastFailureSignal, "broadcast", c6) EXCEPT !.wallets = ws]
        ELSE [Result(UpdateSignal(~a.updateOrgMetadata \/ fail # "Update"), "", c7) EXCEPT
                 !.wallets = ws,
                 !.organizations =
                     IF a.updateOrgMetadata /\ fail # "Update"
                     THEN OrganizationUpdate(organizations, organizationID,
                                             organization, a.metadata)
                     ELSE organizations]

\* a handler that saves the metadata as soon as it has amended it, before
\* it requires the four attributes
consumeOrganizationRegistrationMsgSavingFirst(msg, fail, nth, tokens, contracts) ==
    LET a == ResolveRegistration(msg, fail)
        amending == a.result.diag \in {"domain", "messaging_endpoint",
                                        "zero-knowledge public key"}
        organizationID == msg.organization_id.v
        organization == Deref(FindOrganization(organizationID))
        parsed == ParseMetadata(organization)
        orgAddress == ResolveAddress(ListKeys(vaults[organizationID][1].keys, "secp256k1"))
    IN IF a.done /\ amending /\ AddressMissing(parsed)
       THEN [a.result EXCEPT
                !.organizations = OrganizationUpdate(organizations, organizationID,
                                     organization, [parsed EXCEPT !.address = orgAddress])]
       ELSE IF a.done THEN a.result
       ELSE SubmitRegistration(msg, a, fail, nth, tokens, contracts)

consumeOrganizationRegistrationMsg(msg, fail, nth, tokens, contracts) ==
    LET a == ResolveRegistration(msg, fail)
    IN IF a.done THEN a.result ELSE SubmitRegistration(msg, a, fail, nth, tokens, contracts)

----------------------------------------------------------------------------
(* The Onboarding Trigger: Application.addOrganization and the two          *)
(* goroutines it starts                                                     *)

\* cfg["baselined"]: absent, a boolean, or the string "true"
ConfigValues == {NoBool, JBool(TRUE), JBool(FALSE), [t |-> "string", v |-> TRUE]}

\* a goroutine: idle until the go statement, started, publishing in its
\* loop, returned; the peers still to serve and the publishes it has made
Goroutine(pc, peers, calls) == [pc |-> pc, peers |-> peers, calls |-> calls]

\* others: the other organizations of the application when the row was
\* inserted; listed: those the key-exchange goroutine found; results: what
\* the latest call of addOrganization for the organization returned; tx: the
\* handle the row was inserted through, "none" for the shared connection,
\* "open", "committed" or "rolledback" for a transaction of the caller
NoFanout ==
    [o \in AppOrgIds |->
        [registration |-> Goroutine("idle", <<>>, <<>>),
         keyExchange |-> Goroutine("idle", <<>>, <<>>),
         others |-> {}, listed |-> {}, results |-> <<>>, tx |-> "none"]]

\* isBaseline, baselinedOk := cfg["baselined"].(bool); baselinedOk && isBaseline
IsBaselinedAnyFlag(cfg) == cfg.t # "absent"

IsBaselined(cfg) == IsBool(cfg) /\ cfg.v

\* success := result.RowsAffected == 1; the two go statements; return success
addOrganization(org, rowsAffected, tx) ==
    LET success == rowsAffected = 1
        started == success /\ IsBaselined(appConfig)
    IN
    [success |-> success,
     appOrgs |-> IF success THEN appOrgs \cup {org} ELSE appOrgs,
     fanout |-> [fanout EXCEPT ![org] =
                    [registration |-> IF started THEN Goroutine("started", <<>>, <<>>)
                                      ELSE @.registration,
                     keyExchange |-> IF started THEN Goroutine("started", <<>>, <<>>)
                                     ELSE @.keyExchange,
                     others |-> IF started THEN appOrgs \ {org} ELSE @.others,
                     listed |-> @.listed,
                     results |-> <<success>>,
                     tx |-> IF success THEN tx ELSE @.tx]]]

\* the rows of applications_organizations a query through the handle of the
\* association of o finds: the committed ones and its own; none once the
\* transaction of the handle has ended (the query returns an error, which
\* the goroutine does not look at)
RowsVisible(o) ==
    IF fanout[o].tx \in {"committed", "rolledback"} THEN {}
    ELSE {p \in appOrgs : p = o \/ fanout[p].tx # "open"}

\* the publishes of all goroutines that returned an error
PublishFailures ==
    Cardinality({x \in AppOrgIds \X {"registration", "keyExchange"} \X (1..2 * MaxAssociations) :
                    LET calls == fanout[x[1]][x[2]].calls
                    IN x[3] <= Len(calls) /\ ~calls[x[3]].ok})

\* initOrgRegistration: one event {application_id, organization_id}; the
\* caller discards the result
initOrgRegistrationRetrying(organizationID, ok) ==
    LET publish(result) ==
          Call("Publish", NoToken,
               <<"ident.organization.registration",
                 RegistrationMsg(JString(organizationID), JString(1), NoBool)>>, result)
    IN Goroutine("returned", <<>>,
                 IF ok THEN <<publish(TRUE)>> ELSE <<publish(FALSE), publish(TRUE)>>)

initOrgRegistration(organizationID, ok) ==
    Goroutine("returned", <<>>,
              <<Call("Publish", NoToken,
                     <<"ident.organization.registration",
                       RegistrationMsg(JString(organizationID), JString(1), NoBool)>>, ok)>>)

\* app.OrganizationsListQuery(db).Where("organizations.id != ?", id).Find(&orgs):
\* the rows in the order of the query
RECURSIVE OrganizationsList(_)
OrganizationsList(ids) ==
    IF ids = {} THEN <<>>
    ELSE LET first == CHOOSE x \in ids : \A y \in ids : y <= x
         IN <<first>> \o OrganizationsList(ids \ {first})

\* the payloads of one iteration of the loop over the peers
KeyExchangeInitPayloadsOneWay(organizationID, peerOrg) ==
    <<KexInitMsg(JString(organizationID), JString(peerOrg))>>

KeyExchangeInitPayloads(organizationID, peerOrg) ==
    <<KexInitMsg(JString(organizationID), JString(peerOrg)),
      KexInitMsg(JString(peerOrg), JString(organizationID))>>

\* initImplicitDiffieHellmanKeyExchange, one iteration: the publishes for
\* the next peer, their results discarded
initImplicitDiffieHellmanKeyExchange(g, organizationID, oks) ==
    LET payloads == KeyExchangeInitPayloads(organizationID, Head(g.peers))
        published == [i \in 1..Len(payloads) |->
                        Call("Publish", NoToken,
                             <<"ident.organization.keys.exchange.init", payloads[i]>>, oks[i])]
    IN Goroutine(IF Tail(g.peers) = <<>> THEN "returned" ELSE "publishing",
                 Tail(g.peers), g.calls \o published)

----------------------------------------------------------------------------
(* The broker: one message of a subject, the timer of its acknowledgment   *)
(* wait, and the handlings of its deliveries                               *)

\* the acknowledgment waits of the four subscriptions, in seconds
createOrganizationAckWait == 5
natsOrganizationImplicitKeyExchangeCompleteAckWait == 5
natsOrganizationImplicitKeyExchangeInitAckWait == 5
natsOrganizationRegistrationAckWait == 60

createOrganizationMaxDeliveries == 10
natsOrganizationImplicitKeyExchangeCompleteMaxDeliveries == 10
natsOrganizationImplicitKeyExchangeInitMaxDeliveries == 10
natsOrganizationRegistrationMaxDeliveries == 10
natsCreatedOrganizationCreatedMaxInFlight == 2048
natsOrganizationImplicitKeyExchangeCompleteMaxInFlight == 2048
natsOrganizationImplicitKeyExchangeMaxInFlight == 2048
natsOrganizationRegistrationMaxInFlight == 2048

\* the time that passes between two looks at the timer, in seconds
TickSeconds == 5

Subjects == {"created", "kexInit", "kexComplete", "registration"}

\* the ack wait RequireNatsJetstreamSubscription is given for a subject
AckWaitOfCreated(subject) == createOrganizationAckWait

AckWait(subject) ==
    CASE subject = "created" -> createOrganizationAckWait
      [] subject = "kexInit" -> natsOrganizationImplicitKeyExchangeInitAckWait
      [] subject = "kexComplete" -> natsOrganizationImplicitKeyExchangeCompleteAckWait
      [] subject = "registration" -> natsOrganizationRegistrationAckWait

\* the number of deliveries of one message RequireNatsJetstreamSubscription
\* is given for a subject: the argument that follows the one for the
\* messages in flight
MaxDeliverOfInFlight(subject) ==
    CASE subject = "created" -> natsCreatedOrganizationCreatedMaxInFlight
      [] subject = "kexInit" -> natsOrganizationImplicitKeyExchangeMaxInFlight
      [] subject = "kexComplete" -> natsOrganizationImplicitKeyExchangeCompleteMaxInFlight
      [] subject = "registration" -> natsOrganizationRegistrationMaxInFlight

MaxDeliver(subject) ==
    CASE subject = "created" -> createOrganizationMaxDeliveries
      [] subject = "kexInit" -> natsOrganizationImplicitKeyExchangeInitMaxDeliveries
      [] subject = "kexComplete" -> natsOrganizationImplicitKeyExchangeCompleteMaxDeliveries
      [] subject = "registration" -> natsOrganizationRegistrationMaxDeliveries

\* the workers bound to a subject
Workers == 1..NumWorkers

\* a handling: the worker, the reason of the delivery (the first one, one
\* after a Nak, one after the ack wait ran out), the time the previous
\* delivery had been waiting, the deliveries in flight when it began, and,
\* once the handler has returned, its signal and its collaborator calls.
\* held: what a handler that is taken in two steps has read and resolved so
\* far; write: the place of its write of the organization's row among the
\* writes of all handlings, 0 when it has made none
Handling(w, cause, waited, concurrent) ==
    [worker |-> w, pc |-> "inflight", cause |-> cause, waited |-> waited,
     concurrent |-> concurrent, outcome |-> "None", calls |-> <<>>, recovered |-> FALSE,
     held |-> Nil, write |-> 0]

\* the contracts of an application with one deployed contract of each
\* registry type
DeployedRegistries ==
    <<[type |-> Ptr("erc1820-registry"), address |-> Ptr("0xE")],
      [type |-> Ptr("organization-registry"), address |-> Ptr("0xR")]>>

\* the handler the subscription of a subject was given, applied to a message
\* for an organization whose collaborators answer as fixed here: the key
\* the Vault Service creates has a public key, the application has no
\* stored token, one contract of each registry type is deployed
Handle(subject, msg, fail) ==
    CASE subject = "created" -> consumeCreatedOrganizationMsg(msg, fail)
      [] subject = "kexInit" ->
           consumeOrganizationImplicitKeyExchangeInitMsg(msg, fail, Ptr(<<12, 13>>))
      [] subject = "kexComplete" ->
           consumeOrganizationImplicitKeyExchangeCompleteMsg(msg, fail)
      [] subject = "registration" ->
           consumeOrganizationRegistrationMsg(msg, fail, 1, <<>>, DeployedRegistries)

\* no message is in the stream
NoBroker == [subject |-> "none", msg |-> NotJSON, acked |-> FALSE, naked |-> FALSE,
             since |-> 0, delivered |-> 0, handlings |-> <<>>]

----------------------------------------------------------------------------
(* Permissions and bearer tokens *)

\* type Permission uint32, a bitmask: the set of the flags that are set
DefaultUserPermission ==
    {"Authenticate", "ListApplications", "CreateApplication", "UpdateApplication"}
DefaultSudoerPermission == DefaultUserPermission \cup {"Sudo"}

\* func (p Permission) Has(flags Permission) bool { return p&flags != 0 }
Has(p, flags) == p \cap flags # {}

\* the token AuthenticateUser vends: UserID and Permissions of the user
UserToken(id, permissions) ==
    [user_id |-> Ptr(id), application_id |-> Nil, permissions |-> permissions]

\* bearer.HasAnyPermission(...)
HasAnyPermission(bearer, permissions) == Has(bearer.permissions, permissions)

----------------------------------------------------------------------------
(* Passwords: bcrypt.GenerateFromPassword, bcrypt.CompareHashAndPassword   *)

\* the bytes of a password that the Blowfish key expansion of bcrypt reads;
\* the bcrypt of this build takes a longer password without an error
bcryptKeyBytes == 72

Min(a, b) == IF a < b THEN a ELSE b

\* the hash of a password (none of the model holds a zero byte): what the
\* key expansion read of it; the salt is kept with the hash and used again
\* by the comparison
GenerateFromPassword(password) ==
    [bcrypt |-> SubSeq(password, 1, Min(Len(password), bcryptKeyBytes))]

\* bcrypt.CompareHashAndPassword(hash, password) == nil
CompareHashAndPassword(hash, password) == hash = GenerateFromPassword(password)

\* a password of exactly as many bytes as bcrypt reads
LongPassword == [i \in 1..bcryptKeyBytes |-> 7]

Passwords == {<<1, 2>>, <<1, 3>>, LongPassword, LongPassword \o <<8>>}

----------------------------------------------------------------------------
(* Users: the users table, User.Create, User.Update, AuthenticateUser      *)

UserIds == 1..MaxUsers

NoUsers == [u \in UserIds |-> Nil]

\* email addresses: two spellings of one address, another address, and a
\* string that is no address
Emails == {"a@x.io", "A@X.io", "b@x.io", "nobody"}

\* checkmail.ValidateFormat(email) == nil
ValidateFormat(email) == email \in {"a@x.io", "A@X.io", "b@x.io"}

\* a User as json.Unmarshal fills it from a request body
User(firstName, lastName, email, password, permissions) ==
    [first_name |-> firstName, last_name |-> lastName, email |-> email, password |-> password,
     permissions |-> permissions, application_id |-> Nil, reset_password_token |-> Nil]

\* FullName
FullName(u) ==
    <<IF u.first_name # Nil THEN Deref(u.first_name) ELSE "",
      IF u.last_name # Nil THEN Deref(u.last_name) ELSE "">>

\* AsResponse; the row of a user holds first name, last name and email
AsResponse(id, u) ==
    [id |-> id, name |-> FullName(u), first_name |-> Deref(u.first_name),
     last_name |-> Deref(u.last_name), email |-> Deref(u.email),
     permissions |-> u.permissions]

\* rehashPassword on a user whose Password holds the password as given:
\* the password is hashed and the reset token dropped, or, without a
\* password, an error joins u.Errors and the user stays as it is
rehashPassword(u) ==
    IF u.password # Nil
    THEN [user |-> [u EXCEPT !.password = Ptr(GenerateFromPassword(Deref(u.password))),
                             !.reset_password_token = Nil],
          errors |-> <<>>]
    ELSE [user |-> u, errors |-> <<"invalid password">>]

\* validate, for a record that is new: the email is lower-cased and checked,
\* the password hashed, the permissions defaulted
validate(u) ==
    IF u.password # Nil \/ u.application_id = Nil
    THEN LET email == IF u.email # Nil THEN Ptr(ToLower(Deref(u.email))) ELSE Nil
             e1 == IF email # Nil /\ ~ValidateFormat(Deref(email))
                   THEN <<"invalid email address">> ELSE <<>>
             h == rehashPassword([u EXCEPT !.email = email])
         IN [user |-> [h.user EXCEPT !.permissions =
                                        IF @ = {} THEN DefaultUserPermission ELSE @],
             errors |-> e1 \o h.errors]
    ELSE [user |-> [u EXCEPT !.permissions = IF @ = {} THEN DefaultUserPermission ELSE @],
          errors |-> <<>>]

\* the users table takes a row: first name, last name and email are not
\* null, and no other row of the application holds the email
Storable(us, id, u) ==
    /\ u.first_name # Nil /\ u.last_name # Nil /\ u.email # Nil
    /\ \A i \in UserIds \ {id} :
          us[i] # Nil =>
             ~(Deref(us[i]).email = u.email /\ Deref(us[i]).application_id = u.application_id)

\* User.Create: validate, db.Create, Commit.  ok: the database answers
UserCreate(us, u, ok) ==
    LET v == validate(u)
        free == {i \in UserIds : us[i] = Nil}
        id == IF free = {} THEN 0 ELSE CHOOSE i \in free : \A j \in free : i <= j
    IN
    IF v.errors # <<>>
    THEN [success |-> FALSE, id |-> 0, user |-> v.user, errors |-> v.errors, users |-> us]
    ELSE IF ~ok \/ id = 0 \/ ~Storable(us, id, v.user)
    THEN [success |-> FALSE, id |-> 0, user |-> v.user, errors |-> <<"insert">>, users |-> us]
    ELSE [success |-> TRUE, id |-> id, user |-> v.user, errors |-> <<>>,
          users |-> [us EXCEPT ![id] = Ptr(v.user)]]

\* User.Update: validate does nothing for a record that is not new; tx.Save
\* writes the row as it is, the email as given; Commit
UserUpdate(us, id, u, ok) ==
    IF ok /\ Storable(us, id, u)
    THEN [success |-> TRUE, errors |-> <<>>, users |-> [us EXCEPT ![id] = Ptr(u)]]
    ELSE [success |-> FALSE, errors |-> <<"save">>, users |-> us]

\* db.Where("email = ?", strings.ToLower(email)).Where("application_id IS
\* NULL").First(&user): the first row by primary key, 0 if none
FirstByEmail(us, email) ==
    LET hits == {i \in UserIds :
                   /\ us[i] # Nil
                   /\ Deref(us[i]).email = Ptr(ToLower(email))
                   /\ Deref(us[i]).application_id = Nil}
    IN IF hits = {} THEN 0 ELSE CHOOSE i \in hits : \A j \in hits : i <= j

\* func (u *User) authenticate(password string) bool
authenticate(u, password) ==
    IF u.password = Nil THEN FALSE ELSE CompareHashAndPassword(Deref(u.password), password)

\* what token.Vend does in AuthenticateUser: it vends the token, or fails
\* with or without an entry in token.Errors
VendResults == {"vended", "failed with errors", "failed"}

\* AuthenticateUser(email, password, nil, nil)
AuthenticateUser(us, email, password, vend) ==
    LET id == FirstByEmail(us, email) IN
    IF id = 0 THEN [err |-> Ptr("invalid email"), resp |-> Nil]
    ELSE
      LET user == Deref(us[id]) IN
      IF ~Has(user.permissions, {"Authenticate"})
      THEN [err |-> Ptr("authentication failed due to revoked authenticate permission"),
            resp |-> Nil]
      ELSE IF ~authenticate(user, password)
      THEN [err |-> Ptr("authentication failed with given credentials"), resp |-> Nil]
      ELSE IF vend = "vended"
      THEN [err |-> Nil,
            resp |-> Ptr([user |-> AsResponse(id, user),
                          token |-> Ptr(UserToken(id, user.permissions))])]
      ELSE [err |-> IF vend = "failed with errors"
                    THEN Ptr("failed to create token for authenticated user") ELSE Nil,
            resp |-> Ptr([user |-> AsResponse(id, user), token |-> Nil])]

----------------------------------------------------------------------------
(* The user API: createUserHandler, authenticationHandler,                 *)
(* updateUserHandler, userDetailsHandler                                   *)

NoPermissions == JAbsent({})

\* the JSON object of a request body
UserParams(firstName, lastName, email, password, permissions) ==
    [json |-> TRUE, first_name |-> firstName, last_name |-> lastName, email |-> email,
     password |-> password, permissions |-> permissions]

\* a *string field of a struct after json.Unmarshal: the string of the
\* body, or what the field held
Unmarshalled(j, held) == IF IsString(j) THEN Ptr(j.v) ELSE held

\* provide.Render and provide.RenderError: status and body
Render(body, status) ==
    [status |-> status, body |-> body, panicked |-> FALSE, users |-> users,
     issued |-> issued]

\* a nil pointer dereference in a handler: the request gets no rendered
\* answer, at best the 500 of a recovery middleware
Panicked ==
    [status |-> 500, body |-> "panic", panicked |-> TRUE, users |-> users,
     issued |-> issued]

\* bearer != nil || (bearer.ApplicationID == nil &&
\*     !bearer.HasAnyPermission(common.CreateUser, common.Sudo)),
\* operand by operand: the right operand is evaluated for a nil bearer only
\* and reads its ApplicationID
CreateUserForbidden(bearer) ==
    IF bearer # Nil THEN "true"
    ELSE IF bearer = Nil THEN "panic"
    ELSE IF Deref(bearer).application_id = Nil
            /\ ~HasAnyPermission(Deref(bearer), {"CreateUser", "Sudo"})
    THEN "true" ELSE "false"

\* Exists(*user.Email, user.ApplicationID): the email as the request gave it
Exists(email) ==
    \E i \in UserIds :
       /\ users[i] # Nil
       /\ Deref(users[i]).email = Ptr(email)
       /\ Deref(users[i]).application_id = Nil

createUserHandler(bearer, params, ok) ==
    LET forbidden == CreateUserForbidden(bearer) IN
    IF forbidden = "panic" THEN Panicked
    ELSE IF forbidden = "true" THEN Render("forbidden", 403)
    ELSE IF ~params.json THEN Render("unmarshal", 400)
    ELSE
      LET user == User(Unmarshalled(params.first_name, Nil),
                       Unmarshalled(params.last_name, Nil),
                       Unmarshalled(params.email, Nil),
                       IF IsString(params.password) THEN HexStringOrNil(params.password.v)
                       ELSE Nil,
                       IF params.permissions.t = "absent" THEN {} ELSE params.permissions.v)
      IN
      IF user.email = Nil THEN Render("email address required", 422)
      ELSE IF params.permissions.t # "absent"
              /\ ~HasAnyPermission(Deref(bearer), {"UpdateUser", "Sudo"})
      THEN Render("insufficient permissions to modifiy user permissions", 403)
      ELSE IF Exists(Deref(user.email)) THEN Render("user exists", 409)
      ELSE
        LET r == UserCreate(users, user, ok) IN
        IF r.success
        THEN [Render(AsResponse(r.id, r.user), 201) EXCEPT !.users = r.users]
        ELSE Render(r.errors, 422)

\* authenticationHandler, for a request without token or with the token of
\* a user
authenticationHandler(bearer, params, vend) ==
    IF ~params.json THEN Render("unmarshal", 400)
    ELSE IF bearer = Nil \/ Deref(bearer).user_id = Nil
    THEN
      IF IsString(params.email)
      THEN
        IF IsString(params.password)
        THEN
          LET r == AuthenticateUser(users, params.email.v, params.password.v, vend) IN
          IF r.err # Nil THEN Render(Deref(r.err), 401)
          ELSE [Render(Deref(r.resp), 201) EXCEPT
                   !.issued = IF Deref(r.resp).token = Nil THEN issued
                              ELSE issued \cup {Deref(Deref(r.resp).token)}]
        ELSE IF bearer = Nil THEN Panicked
        ELSE Render("password required to attempt user authentication", 422)
      ELSE Render("unauthorized", 401)
    ELSE Render("unauthorized", 401)

\* bearer == nil || (bearer.UserID != nil && bearer.UserID.String() !=
\*     c.Param("id") || !bearer.HasAnyPermission(common.UpdateUser, common.Sudo))
UpdateUserForbidden(bearer, id) ==
    \/ bearer = Nil
    \/ Deref(bearer).user_id # Nil /\ Deref(bearer).user_id # Ptr(id)
    \/ ~HasAnyPermission(Deref(bearer), {"UpdateUser", "Sudo"})

updateUserHandler(bearer, id, params, ok) ==
    IF UpdateUserForbidden(bearer, id) THEN Render("forbidden", 403)
    ELSE IF ~params.json THEN Render("unmarshal", 400)
    ELSE IF params.permissions.t # "absent"
            /\ ~HasAnyPermission(Deref(bearer), {"UpdateUser", "Sudo"})
    THEN Render("insufficient permissions to modifiy user permissions", 403)
    ELSE IF users[id] = Nil THEN Render("user not found", 404)
    ELSE
      LET row == Deref(users[id])
          user == [row EXCEPT
                     !.first_name = Unmarshalled(params.first_name, @),
                     !.last_name = Unmarshalled(params.last_name, @),
                     !.email = Unmarshalled(params.email, @),
                     !.permissions = IF params.permissions.t = "absent" THEN @
                                     ELSE params.permissions.v]
          h == IF IsString(params.password)
               THEN rehashPassword([user EXCEPT
                                       !.password = HexStringOrNil(params.password.v)])
               ELSE [user |-> user, errors |-> <<>>]
          r == UserUpdate(users, id, h.user, ok)
      IN
      IF r.success THEN [Render(Nil, 204) EXCEPT !.users = r.users]
      ELSE Render(r.errors, 422)

\* a details handler that refuses a request without token only
userDetailsHandlerAnyToken(bearer, id) ==
    IF bearer = Nil THEN Render("forbidden", 403)
    ELSE IF users[id] = Nil THEN Render("user not found", 404)
    ELSE Render(AsResponse(id, Deref(users[id])), 200)

\* bearer == nil || (!bearer.HasAnyPermission(common.ListUsers, common.Sudo)
\*     && bearer.UserID != nil && bearer.UserID.String() != c.Param("id"))
userDetailsHandler(bearer, id) ==
    IF \/ bearer = Nil
       \/ /\ ~HasAnyPermission(Deref(bearer), {"ListUsers", "Sudo"})
          /\ Deref(bearer).user_id # Nil
          /\ Deref(bearer).user_id # Ptr(id)
    THEN Render("forbidden", 403)
    ELSE IF users[id] = Nil THEN Render("user not found", 404)
    ELSE Render(AsResponse(id, Deref(users[id])), 200)

----------------------------------------------------------------------------
(* Password reset: CreateResetPasswordToken,                               *)
(* userResetPasswordRequestHandler, userResetPasswordHandler               *)

\* the signed token of CreateResetPasswordToken, by the claims the reset
\* reads and the one that tells two tokens apart: sub "user:<id>", and jti
ResetToken(id, jti) == [sub |-> <<"user", id>>, jti |-> jti]

\* a path parameter that jwt.Parse returns no token for
NotAToken == [sub |-> <<>>, jti |-> 0]

\* uuid.NewV4() for the jti: an id that no token handed out before holds
NewTokenID == 1 + Cardinality(issued)

\* CreateResetPasswordToken: the token is set on the user and the row
\* saved.  ok: the database answers
CreateResetPasswordToken(us, id, ok) ==
    LET token == ResetToken(id, NewTokenID)
        u == [Deref(us[id]) EXCEPT !.reset_password_token = Ptr(token)]
    IN
    IF ok THEN [success |-> TRUE, token |-> token, errors |-> <<>>,
                users |-> [us EXCEPT ![id] = Ptr(u)]]
    ELSE [success |-> FALSE, token |-> token, errors |-> <<"save">>, users |-> us]

\* db.Where("email = ?", email).Find(&user), for a request without the token
\* of an application: the email as given, the first row by primary key
FindByEmail(us, email) ==
    LET hits == {i \in UserIds : us[i] # Nil /\ Deref(us[i]).email = Ptr(email)}
    IN IF hits = {} THEN 0 ELSE CHOOSE i \in hits : \A j \in hits : i <= j

\* userResetPasswordRequestHandler, for a request without the token of an
\* application
userResetPasswordRequestHandler(params, ok) ==
    IF ~params.json THEN Render("unmarshal", 400)
    ELSE IF ~IsString(params.email) THEN Render("email address is required", 422)
    ELSE
      LET id == FindByEmail(users, params.email.v) IN
      IF id = 0 THEN Render("user not found", 404)
      ELSE
        LET r == CreateResetPasswordToken(users, id, ok) IN
        IF r.success
        THEN [Render(r.token, 201) EXCEPT !.users = r.users,
                                          !.issued = issued \cup {r.token}]
        ELSE Render(r.errors, 422)

\* a reset handler that compares no token with the one of the user
userResetPasswordHandlerAnyToken(rawToken, params, ok) ==
    IF ~params.json THEN Render("unmarshal", 400)
    ELSE IF rawToken = NotAToken THEN Render("invalid jwt token", 422)
    ELSE IF ~IsString(params.password) THEN Render("password is required", 422)
    ELSE
      LET id == rawToken.sub[2] IN
      IF users[id] = Nil THEN Render("user not found", 404)
      ELSE
        LET h == rehashPassword([Deref(users[id]) EXCEPT
                                    !.password = HexStringOrNil(params.password.v)])
            r == UserUpdate(users, id, h.user, ok)
        IN
        IF r.success THEN [Render(Nil, 204) EXCEPT !.users = r.users]
        ELSE Render(r.errors, 422)

\* userResetPasswordHandler, for a request without the token of an
\* application.  jwt.Parse checks no signature and no expiry here: its key
\* function returns no key, and the handler reads the claims of any token
\* that parsed
userResetPasswordHandler(rawToken, params, ok) ==
    IF ~params.json THEN Render("unmarshal", 400)
    ELSE IF rawToken = NotAToken THEN Render("invalid jwt token", 422)
    ELSE IF Len(rawToken.sub) # 2 THEN Render("JWT subject malformed", 422)
    ELSE IF rawToken.sub[1] # "user"
    THEN Render("JWT claims specified non-user subject", 422)
    ELSE IF ~IsString(params.password) THEN Render("password is required", 422)
    ELSE
      LET id == rawToken.sub[2] IN
      IF users[id] = Nil THEN Render("user not found", 404)
      ELSE
        LET row == Deref(users[id]) IN
        IF row.reset_password_token = Nil \/ Deref(row.reset_password_token) # rawToken
        THEN Render("invalid reset token", 422)
        ELSE
          LET h == rehashPassword([row EXCEPT
                                      !.password = HexStringOrNil(params.password.v)])
              r == UserUpdate(users, id, h.user, ok)
          IN
          IF r.success THEN [Render(Nil, 204) EXCEPT !.users = r.users]
          ELSE Render(r.errors, 422)

----------------------------------------------------------------------------
(* The record of the most recent operation *)

NoOp == [op |-> "none", msg |-> NotJSON, outcome |-> "None", diag |-> "",
         calls |-> <<>>, recovered |-> FALSE, tokens |-> <<>>, contracts |-> <<>>]

LastOf(op, msg, r) ==
    [op |-> op, msg |-> msg, outcome |-> r.outcome, diag |-> r.diag,
     calls |-> r.calls, recovered |-> r.recovered, tokens |-> <<>>, contracts |-> <<>>]

\* a registration delivery, with the token rows and the contracts it was given
LastOfRegistration(msg, r, tokens, contracts) ==
    [LastOf("registration", msg, r) EXCEPT !.tokens = tokens, !.contracts = contracts]

\* the worker is in its subscription loop: no handling is on record
Ready == last = NoOp

\* the worker returns from the handler to its subscription loop
Return ==
    /\ ~Ready
    /\ last' = NoOp
    /\ UNCHANGED <<users, issued, organizations, vaults, wallets, appOrgs, appConfig, broker, fanout, vaultCreations>>

----------------------------------------------------------------------------
(* Organizations of the database *)

\* the rows the create path can insert: Name is a *string
NewOrganizations == {[name |-> n, metadata |-> NoMetadata] : n \in {Nil, Ptr("acme")}}

\* createOrganizationHandler: org.Create(tx), tx.Commit()
CreateOrganization ==
    /\ Ready
    /\ \E o \in OrgIds, row \in NewOrganizations :
          /\ organizations[o] = Nil
          /\ organizations' = [organizations EXCEPT ![o] = Ptr(row)]
          /\ UNCHANGED <<users, issued, vaults, wallets, appOrgs, appConfig, broker, fanout, vaultCreations, last>>

\* the organization a well-formed message names, 0 for a malformed one
Target(msg) ==
    IF msg.json /\ IsString(msg.organization_id) THEN msg.organization_id.v ELSE 0

\* some call of the trace to the named operation returned no error
Succeeded(calls, name) == \E i \in 1..Len(calls) : calls[i].call = name /\ calls[i].ok

\* a worker of ident.organization.created handles one delivery
DeliverCreated ==
    /\ Ready
    /\ \E msg \in CreatedMessages, fail \in CreatedFailPoints :
       LET r == consumeCreatedOrganizationMsg(msg, fail) IN
       /\ \A o \in OrgIds : Len(r.vaults[o]) <= MaxVaults
       /\ vaults' = r.vaults
       /\ vaultCreations' =
             IF Succeeded(r.calls, "CreateVault")
             THEN [vaultCreations EXCEPT ![Target(msg)] = @ + 1] ELSE vaultCreations
       /\ last' = LastOf("created", msg, r)
       /\ UNCHANGED <<users, issued, organizations, wallets, appOrgs, appConfig, broker, fanout>>

ProvisionInit ==
    /\ organizations = [o \in OrgIds |-> Nil]
    /\ vaults = [o \in OrgIds |-> <<>>]
    /\ wallets = [o \in OrgIds |-> 0]
    /\ appOrgs = {}
    /\ appConfig = NoBool
    /\ fanout = NoFanout
    /\ vaultCreations = [o \in OrgIds |-> 0]
    /\ broker = NoBroker
    /\ last = NoOp
    /\ users = NoUsers
    /\ issued = {}

ProvisionNext == CreateOrganization \/ DeliverCreated \/ Return

ProvisionSpec == ProvisionInit /\ [][ProvisionNext]_vars

----------------------------------------------------------------------------
(* The key-exchange stages and the keys other actors put in the vaults *)

\* the keys an organization's own tooling creates: its exchange signing key
\* (under either spelling of the name), a signing key the Vault Service
\* returns without public key and spec, and keys of other names or none
KexKeyTemplates ==
    { [name |-> Ptr("Ekho Signing"), spec |-> Ptr("Ed25519"), pk |-> Ptr(<<1, 2>>)],
      [name |-> Ptr("ekho signing"), spec |-> Nil, pk |-> Nil],
      [name |-> Ptr("other"), spec |-> Ptr("Ed25519"), pk |-> Ptr(<<3, 4>>)],
      [name |-> Nil, spec |-> Ptr("Ed25519"), pk |-> Ptr(<<5, 6>>)] }

\* another client of the Vault Service creates a vault for an organization
ExternalCreateVault ==
    /\ Ready
    /\ \E o \in OrgIds :
          /\ organizations[o] # Nil
          /\ Len(vaults[o]) < MaxVaults
          /\ vaults' = VaultCreateVault(vaults, o, <<"external", " vault">>)
          /\ UNCHANGED <<users, issued, organizations, wallets, appOrgs, appConfig, broker, fanout, vaultCreations, last>>

\* another client of the Vault Service creates a key in a vault
ExternalCreateKexKey ==
    /\ Ready
    /\ \E o \in OrgIds, t \in KexKeyTemplates :
          \E v \in 1..Len(vaults[o]) :
             /\ TotalKeys(vaults) < MaxKeys
             /\ vaults' = VaultCreateKey(vaults, o, v,
                             Key(NextKeyId(vaults, o, v), t.name, t.spec, Nil, t.pk))
             /\ UNCHANGED <<users, issued, organizations, wallets, appOrgs, appConfig, broker, fanout, vaultCreations, last>>

\* a worker of ident.organization.keys.exchange.init handles one delivery
DeliverKexInit ==
    /\ Ready
    /\ \E msg \in KexInitMessages, fail \in KexInitFailPoints, pk \in CreateKeyResponses :
       LET r == consumeOrganizationImplicitKeyExchangeInitMsg(msg, fail, pk) IN
       /\ TotalKeys(r.vaults) <= MaxKeys
       /\ vaults' = r.vaults
       /\ last' = LastOf("kexInit", msg, r)
       /\ UNCHANGED <<users, issued, organizations, wallets, appOrgs, appConfig, broker, fanout, vaultCreations>>

\* a worker of ident.organization.keys.exchange.complete handles one delivery
DeliverKexComplete ==
    /\ Ready
    /\ \E msg \in KexCompleteMessages, fail \in KexCompleteFailPoints :
       LET r == consumeOrganizationImplicitKeyExchangeCompleteMsg(msg, fail) IN
       /\ vaults' = r.vaults
       /\ last' = LastOf("kexComplete", msg, r)
       /\ UNCHANGED <<users, issued, organizations, wallets, appOrgs, appConfig, broker, fanout, vaultCreations>>

\* organization 1 exists; the other ids name no organization
KexInit ==
    /\ organizations = [o \in OrgIds |->
                          IF o = 1 THEN Ptr([name |-> Ptr("acme"), metadata |-> NoMetadata])
                          ELSE Nil]
    /\ vaults = [o \in OrgIds |-> <<>>]
    /\ wallets = [o \in OrgIds |-> 0]
    /\ appOrgs = {}
    /\ appConfig = NoBool
    /\ fanout = NoFanout
    /\ vaultCreations = [o \in OrgIds |-> 0]
    /\ broker = NoBroker
    /\ last = NoOp
    /\ users = NoUsers
    /\ issued = {}

KexNext ==
    \/ ExternalCreateVault
    \/ ExternalCreateKexKey
    \/ DeliverKexInit
    \/ DeliverKexComplete
    \/ Return

KexSpec == KexInit /\ [][KexNext]_vars

----------------------------------------------------------------------------
(* The registration stage *)

\* the keys an organization's tooling creates for registration: a
\* secp256k1 key with or without address, a babyJubJub key with or without
\* public key
RegKeyTemplates ==
    { [spec |-> Ptr("secp256k1"), address |-> Ptr("0xA"), pk |-> Ptr(<<7, 8>>)],
      [spec |-> Ptr("secp256k1"), address |-> Nil, pk |-> Ptr(<<7, 9>>)],
      [spec |-> Ptr("babyJubJub"), address |-> Nil, pk |-> Ptr(<<9, 9>>)],
      [spec |-> Ptr("babyJubJub"), address |-> Nil, pk |-> Nil] }

\* the keys are created in the organization's first vault, the only one the
\* registration lists
ExternalCreateRegKey ==
    /\ Ready
    /\ \E o \in OrgIds, t \in RegKeyTemplates :
          /\ Len(vaults[o]) > 0
          /\ TotalKeys(vaults) < MaxKeys
          /\ vaults' = VaultCreateKey(vaults, o, 1,
                          Key(NextKeyId(vaults, o, 1), Nil, t.spec, t.address, t.pk))
          /\ UNCHANGED <<users, issued, organizations, wallets, appOrgs, appConfig, broker, fanout,
                         vaultCreations, last>>

\* the failures after which the listed contracts are not looked at
FailPointsBeforeListing == {"VendApplication", "ListContracts", "VendWallet", "CreateWallet"}

\* a delivery of a registration event.  A collaborator can fail only in a
\* delivery that calls one; the stored tokens and the listed contracts are
\* read only after the validation.  The contracts listed after one whose
\* details cannot be fetched are never looked at, so the list ends with it.
DeliverRegistration ==
    /\ Ready
    /\ \E msg \in RegistrationMessages :
       \E fail \in (IF Len(ResolveRegistration(msg, "none").result.calls) <= 1
                    THEN {"none"} ELSE RegistrationFailPoints) :
       LET a == ResolveRegistration(msg, fail) IN
       /\ IF a.done THEN TRUE ELSE wallets[a.organizationID] < MaxWallets
       /\ \E tokens \in (IF a.done THEN {<<>>} ELSE StoredTokens),
          contracts \in (IF a.done \/ fail \in FailPointsBeforeListing
                        THEN {<<>>} ELSE ContractLists) :
          \E nth \in (IF contracts # <<>> THEN {Len(contracts)} ELSE {1}) :
             LET r == consumeOrganizationRegistrationMsg(msg, fail, nth, tokens, contracts) IN
             /\ organizations' = r.organizations
             /\ wallets' = r.wallets
             /\ vaults' = r.vaults
             /\ last' = LastOfRegistration(msg, r, tokens, contracts)
             /\ UNCHANGED <<users, issued, appOrgs, appConfig, broker, fanout, vaultCreations>>

\* the rows of organization 1: each metadata field absent or a string (the
\* address differs from the key's)
RegOrganizations ==
    {[name |-> Ptr("acme"),
      metadata |-> [address |-> a, domain |-> d, messaging_endpoint |-> e]] :
        a \in {Nil, Ptr("0xB")},
        d \in {Nil, Ptr(""), Ptr("acme.org")}, e \in {Nil, Ptr("nats://acme")}}

\* organization 1 exists; the other ids name no organization
RegInit ==
    /\ \E row \in RegOrganizations :
          organizations = [o \in OrgIds |-> IF o = 1 THEN Ptr(row) ELSE Nil]
    /\ vaults = [o \in OrgIds |-> <<>>]
    /\ wallets = [o \in OrgIds |-> 0]
    /\ appOrgs = {}
    /\ appConfig = NoBool
    /\ fanout = NoFanout
    /\ vaultCreations = [o \in OrgIds |-> 0]
    /\ broker = NoBroker
    /\ last = NoOp
    /\ users = NoUsers
    /\ issued = {}

RegNext ==
    \/ ExternalCreateVault
    \/ ExternalCreateRegKey
    \/ DeliverRegistration
    \/ Return

RegSpec == RegInit /\ [][RegNext]_vars

----------------------------------------------------------------------------
(* The Onboarding Trigger: an application, organizations associated with    *)
(* it one by one, and the goroutines of each association                    *)

\* a caller associates an organization through the shared connection
AddOrganization ==
    \E org \in AppOrgIds \ appOrgs, rowsAffected \in {0, 1} :
       LET r == addOrganization(org, rowsAffected, "none") IN
       /\ appOrgs' = r.appOrgs
       /\ fanout' = r.fanout
       /\ UNCHANGED <<users, issued, organizations, vaults, wallets, appConfig, broker, vaultCreations, last>>

\* a caller associates an organization inside a transaction it has begun
AddOrganizationInTransaction ==
    \E org \in AppOrgIds \ appOrgs :
       LET r == addOrganization(org, 1, "open") IN
       /\ appOrgs' = r.appOrgs
       /\ fanout' = r.fanout
       /\ UNCHANGED <<users, issued, organizations, vaults, wallets, appConfig, broker, vaultCreations, last>>

\* tx.Commit() of the caller, after addOrganization has returned
CommitTransaction ==
    \E org \in appOrgs :
       /\ fanout[org].tx = "open"
       /\ fanout' = [fanout EXCEPT ![org].tx = "committed"]
       /\ UNCHANGED <<users, issued, organizations, vaults, wallets, appOrgs, appConfig, broker, vaultCreations, last>>

RunInitOrgRegistration ==
    \E o \in AppOrgIds, ok \in BOOLEAN :
       /\ fanout[o].registration.pc = "started"
       /\ ok \/ PublishFailures < MaxPublishFailures
       /\ fanout' = [fanout EXCEPT ![o].registration = initOrgRegistration(o, ok)]
       /\ UNCHANGED <<users, issued, organizations, vaults, wallets, appOrgs, appConfig, broker, vaultCreations, last>>

\* a listing without Where("organizations.id != ?", organizationID)
ListPeerOrganizationsWithSelf ==
    \E o \in AppOrgIds :
       LET orgs == OrganizationsList(RowsVisible(o)) IN
       /\ fanout[o].keyExchange.pc = "started"
       /\ fanout' = [fanout EXCEPT
                        ![o].keyExchange =
                            Goroutine(IF orgs = <<>> THEN "returned" ELSE "publishing",
                                      orgs, <<>>),
                        ![o].listed = RowsVisible(o)]
       /\ UNCHANGED <<users, issued, organizations, vaults, wallets, appOrgs, appConfig, broker, vaultCreations, last>>

\* the goroutine lists the peers when it runs, not when it was started
ListPeerOrganizations ==
    \E o \in AppOrgIds :
       LET orgs == OrganizationsList(RowsVisible(o) \ {o}) IN
       /\ fanout[o].keyExchange.pc = "started"
       /\ fanout' = [fanout EXCEPT
                        ![o].keyExchange =
                            Goroutine(IF orgs = <<>> THEN "returned" ELSE "publishing",
                                      orgs, <<>>),
                        ![o].listed = RowsVisible(o) \ {o}]
       /\ UNCHANGED <<users, issued, organizations, vaults, wallets, appOrgs, appConfig, broker, vaultCreations, last>>

PublishKeyExchangeInit ==
    \E o \in AppOrgIds, oks \in [1..2 -> BOOLEAN] :
       /\ fanout[o].keyExchange.pc = "publishing"
       /\ PublishFailures + Cardinality({i \in 1..2 : ~oks[i]}) <= MaxPublishFailures
       /\ fanout' = [fanout EXCEPT ![o].keyExchange =
                        initImplicitDiffieHellmanKeyExchange(fanout[o].keyExchange, o, oks)]
       /\ UNCHANGED <<users, issued, organizations, vaults, wallets, appOrgs, appConfig, broker, vaultCreations, last>>

TriggerInit ==
    /\ organizations = [o \in OrgIds |-> Nil]
    /\ vaults = [o \in OrgIds |-> <<>>]
    /\ wallets = [o \in OrgIds |-> 0]
    /\ appOrgs = {}
    /\ appConfig \in ConfigValues
    /\ fanout = NoFanout
    /\ vaultCreations = [o \in OrgIds |-> 0]
    /\ broker = NoBroker
    /\ last = NoOp
    /\ users = NoUsers
    /\ issued = {}

TriggerNext ==
    \/ AddOrganization
    \/ RunInitOrgRegistration
    \/ ListPeerOrganizations
    \/ PublishKeyExchangeInit

TriggerSpec == TriggerInit /\ [][TriggerNext]_vars

\* the same application, with associations made inside transactions of
\* their callers
TxTriggerInit ==
    /\ TriggerInit
    /\ appConfig = JBool(TRUE)

TxTriggerNext ==
    \/ AddOrganization
    \/ AddOrganizationInTransaction
    \/ CommitTransaction
    \/ RunInitOrgRegistration
    \/ ListPeerOrganizations
    \/ PublishKeyExchangeInit

TxTriggerSpec == TxTriggerInit /\ [][TxTriggerNext]_vars

\* tx.Rollback() of the caller, after addOrganization has returned: the row
\* of the association is gone
RollbackTransaction ==
    \E org \in appOrgs :
       /\ fanout[org].tx = "open"
       /\ appOrgs' = appOrgs \ {org}
       /\ fanout' = [fanout EXCEPT ![org].tx = "rolledback"]
       /\ UNCHANGED <<users, issued, organizations, vaults, wallets, appConfig, broker,
                      vaultCreations, last>>

\* the transactions with an association that are neither committed nor
\* rolled back
OpenTransactions == {o \in AppOrgIds : fanout[o].tx = "open"}

\* the baselined application, with associations made inside transactions
\* that their callers commit or roll back, and a broker that accepts every
\* event
RollbackNext ==
    \/ Cardinality(OpenTransactions) < MaxOpenTransactions /\ AddOrganizationInTransaction
    \/ CommitTransaction
    \/ RollbackTransaction
    \/ RunInitOrgRegistration /\ PublishFailures' = 0
    \/ ListPeerOrganizations
    \/ PublishKeyExchangeInit /\ PublishFailures' = 0

RollbackSpec == TxTriggerInit /\ [][RollbackNext]_vars

----------------------------------------------------------------------------
(* Redelivery: one message of a subject, the workers bound to the subject, *)
(* and the timer of the acknowledgment wait                                *)

\* the message of each subject, for organization 1
StreamMessages ==
    [created |-> {CreatedMsg(JString(1))},
     kexInit |-> {KexInitMsg(JString(1), JString(2))},
     kexComplete |-> {Msg(JString(1), JString(2), JString(<<10, 11>>),
                          JString(<<2, 10, 11>> \o <<0>>), JString(<<1, 2>>),
                          JString("Ed25519"), NoId, NoBool)},
     registration |-> {RegistrationMsg(JString(1), JString(1), upd) :
                          upd \in {NoBool, JBool(TRUE)}}]

\* the keys of the organization's vault: its exchange signing key, a
\* secp256k1 key with an address, a babyJubJub key with a public key
StreamVaultKeys ==
    <<Key(17, Ptr("Ekho Signing"), Ptr("Ed25519"), Nil, Ptr(<<1, 2>>)),
      Key(18, Nil, Ptr("secp256k1"), Ptr("0xA"), Ptr(<<7, 8>>)),
      Key(19, Nil, Ptr("babyJubJub"), Nil, Ptr(<<9, 9>>))>>

\* the collaborator calls that can fail in a handling
HandlingFailPoints == {"none", "CreateVault", "CreateKey", "CreateWallet", "ExecuteContract"}

\* the deliveries whose handler has not returned
InFlight == {d \in 1..Len(broker.handlings) : broker.handlings[d].pc = "inflight"}

\* the workers whose handler is not running
Idle == {w \in Workers : \A d \in InFlight : broker.handlings[d].worker # w}

\* the broker delivers the message to an idle worker: for the first time,
\* after a Nak, or when the ack wait has run out without a signal.  The
\* workers of a subject run the same handler, so the lowest idle one stands
\* for whichever the broker picks
DeliverMessage ==
    \E w \in Idle :
       LET cause == IF broker.handlings = <<>> THEN "first"
                    ELSE IF broker.naked THEN "nak" ELSE "ackwait" IN
       /\ broker.subject # "none"
       /\ ~broker.acked
       /\ Len(broker.handlings) < MaxDeliveries
       /\ broker.delivered < MaxDeliver(broker.subject)
       /\ \A v \in Idle : w <= v
       /\ cause = "ackwait" => broker.since >= AckWait(broker.subject)
       /\ broker' = [broker EXCEPT
                        !.since = 0,
                        !.naked = FALSE,
                        !.delivered = @ + 1,
                        !.handlings = Append(@, Handling(w, cause, broker.since, InFlight))]
       /\ UNCHANGED <<users, issued, organizations, vaults, wallets, appOrgs, appConfig, fanout,
                      vaultCreations, last>>

\* time passes while the message waits for its signal, until the ack wait
\* has run out
Tick ==
    /\ broker.handlings # <<>>
    /\ ~broker.acked
    /\ ~broker.naked
    /\ broker.since < AckWait(broker.subject)
    /\ broker' = [broker EXCEPT !.since = @ + TickSeconds]
    /\ UNCHANGED <<users, issued, organizations, vaults, wallets, appOrgs, appConfig, fanout,
                   vaultCreations, last>>

\* the handler of a delivery runs and returns with its signal; an Ack or a
\* Nak ends the wait for a signal
CompleteHandling ==
    \E d \in InFlight, fail \in HandlingFailPoints :
       LET r == Handle(broker.subject, broker.msg, fail)
           acked == broker.acked \/ r.outcome = "Ack"
       IN
       /\ organizations' = r.organizations
       /\ vaults' = r.vaults
       /\ wallets' = r.wallets
       /\ vaultCreations' =
             IF Succeeded(r.calls, "CreateVault")
             THEN [vaultCreations EXCEPT ![Target(broker.msg)] = @ + 1] ELSE vaultCreations
       /\ broker' = [broker EXCEPT
                        !.acked = acked,
                        !.naked = ~acked /\ (@ \/ r.outcome = "Nak"),
                        !.since = IF r.outcome \in {"Ack", "Nak"} THEN 0 ELSE @,
                        !.handlings[d] = [@ EXCEPT !.pc = "done", !.outcome = r.outcome,
                                                   !.calls = r.calls,
                                                   !.recovered = r.recovered]]
       /\ UNCHANGED <<users, issued, appOrgs, appConfig, fanout, last>>

\* organization 1 with its metadata; no vault yet when the message is its
\* created event, otherwise a vault with its keys
RedeliveryInit ==
    /\ \E subject \in Subjects, address \in {Nil, Ptr("0xB")} :
          \E msg \in StreamMessages[subject] :
             /\ broker = [NoBroker EXCEPT !.subject = subject, !.msg = msg]
             /\ organizations =
                   [o \in OrgIds |->
                      IF o = 1
                      THEN Ptr([name |-> Ptr("acme"),
                                metadata |-> [address |-> address, domain |-> Ptr("acme.org"),
                                              messaging_endpoint |-> Ptr("nats://acme")]])
                      ELSE Nil]
             /\ vaults =
                   [o \in OrgIds |->
                      IF o = 1 /\ subject # "created"
                      THEN <<[name |-> <<"acme", " vault">>, keys |-> StreamVaultKeys]>>
                      ELSE <<>>]
    /\ wallets = [o \in OrgIds |-> 0]
    /\ appOrgs = {}
    /\ appConfig = NoBool
    /\ fanout = NoFanout
    /\ vaultCreations = [o \in OrgIds |-> 0]
    /\ last = NoOp
    /\ users = NoUsers
    /\ issued = {}

RedeliveryNext == DeliverMessage \/ Tick \/ CompleteHandling

RedeliverySpec == RedeliveryInit /\ [][RedeliveryNext]_vars

----------------------------------------------------------------------------
(* The delivery limit: one message of a subject from its first delivery to *)
(* its last, the handlings that have returned forgotten                    *)

\* the broker delivers the message again to an idle worker, as long as it
\* has not been acknowledged and has been delivered less often than the
\* subscription allows; why the delivery was made is not kept
DeliverUpToMax ==
    \E w \in Idle :
       LET cause == IF broker.delivered = 0 THEN "first"
                    ELSE IF broker.naked THEN "nak" ELSE "ackwait"
           running == SelectSeq(broker.handlings, LAMBDA h : h.pc = "inflight")
       IN
       /\ broker.subject # "none"
       /\ ~broker.acked
       /\ broker.delivered < MaxDeliver(broker.subject)
       /\ \A v \in Idle : w <= v
       /\ cause = "ackwait" => broker.since >= AckWait(broker.subject)
       /\ broker' = [broker EXCEPT
                        !.since = 0,
                        !.naked = FALSE,
                        !.delivered = @ + 1,
                        !.handlings = Append(running, Handling(w, "", 0, {}))]
       /\ UNCHANGED <<users, issued, organizations, vaults, wallets, appOrgs, appConfig, fanout,
                      vaultCreations, last>>

\* the ack wait of the subject runs out with no signal for the message
AckWaitRunsOut ==
    /\ broker.delivered > 0
    /\ ~broker.acked
    /\ ~broker.naked
    /\ broker.since < AckWait(broker.subject)
    /\ broker' = [broker EXCEPT !.since = AckWait(broker.subject)]
    /\ UNCHANGED <<users, issued, organizations, vaults, wallets, appOrgs, appConfig, fanout,
                   vaultCreations, last>>

\* one event of a subject for organization 1, which has its metadata and,
\* unless the event is its created event, a vault with its keys
DeliveryLimitInit ==
    /\ \E subject \in Subjects :
          /\ broker = [NoBroker EXCEPT
                          !.subject = subject,
                          !.msg = CHOOSE msg \in StreamMessages[subject] :
                                     msg.update_registry = NoBool]
          /\ vaults =
                [o \in OrgIds |->
                   IF o = 1 /\ subject # "created"
                   THEN <<[name |-> <<"acme", " vault">>, keys |-> StreamVaultKeys]>>
                   ELSE <<>>]
    /\ organizations =
          [o \in OrgIds |->
             IF o = 1
             THEN Ptr([name |-> Ptr("acme"),
                       metadata |-> [address |-> Nil, domain |-> Ptr("acme.org"),
                                     messaging_endpoint |-> Ptr("nats://acme")]])
             ELSE Nil]
    /\ wallets = [o \in OrgIds |-> 0]
    /\ appOrgs = {}
    /\ appConfig = NoBool
    /\ fanout = NoFanout
    /\ vaultCreations = [o \in OrgIds |-> 0]
    /\ last = NoOp
    /\ users = NoUsers
    /\ issued = {}

DeliveryLimitNext == DeliverUpToMax \/ AckWaitRunsOut \/ CompleteHandling

DeliveryLimitSpec == DeliveryLimitInit /\ [][DeliveryLimitNext]_vars

----------------------------------------------------------------------------
(* The race on the organization's row: the registration handler taken in   *)
(* two steps, its reads (lines 546-654) and, after the calls to its         *)
(* collaborators, its write (lines 777-780), with the handlings of other    *)
(* workers and other writers of the row in between                          *)

\* the handlings that have written the organization's row
Writes == {d \in 1..Len(broker.handlings) : broker.handlings[d].write > 0}

\* the domains another writer of the row gives the organization
Domains == {"acme.org", "acme.io"}

\* the collaborator calls that can fail after the reads
WriteFailPoints == {"none", "ExecuteContract", "Update"}

\* the signal of a handler that has returned, as the broker takes it
Signalled(b, d, r) ==
    LET acked == b.acked \/ r.outcome = "Ack" IN
    [b EXCEPT !.acked = acked,
              !.naked = ~acked /\ (@ \/ r.outcome = "Nak"),
              !.since = IF r.outcome \in {"Ack", "Nak"} THEN 0 ELSE @,
              !.handlings[d] = [@ EXCEPT !.pc = "done", !.outcome = r.outcome,
                                         !.calls = r.calls, !.recovered = r.recovered]]

\* lines 512-654 of a handling: the reads; the handler returns here when
\* something is missing
ResolveHandling ==
    \E d \in InFlight :
       LET a == ResolveRegistration(broker.msg, "none") IN
       /\ broker.handlings[d].held = Nil
       /\ broker' = IF a.done THEN Signalled(broker, d, a.result)
                     ELSE [broker EXCEPT !.handlings[d].held = Ptr(a)]
       /\ UNCHANGED <<users, issued, organizations, vaults, wallets, appOrgs, appConfig, fanout,
                      vaultCreations, last>>

\* lines 656-788 of a handling: the calls to the collaborators and the write
\* of the row as this handler read it, with its address
SubmitHandling ==
    \E d \in InFlight, fail \in WriteFailPoints :
       LET h == broker.handlings[d]
           r == SubmitRegistration(broker.msg, Deref(h.held), fail, 1, <<>>,
                                   DeployedRegistries)
           b == Signalled(broker, d, r)
       IN
       /\ h.held # Nil
       /\ organizations' = r.organizations
       /\ wallets' = r.wallets
       /\ broker' = [b EXCEPT !.handlings[d].write =
                                   IF Succeeded(r.calls, "Update")
                                   THEN Cardinality(Writes) + 1 ELSE 0]
       /\ UNCHANGED <<users, issued, vaults, appOrgs, appConfig, fanout, vaultCreations, last>>

\* another writer of the organization's row (the handlers of the
\* organization API) gives it another domain
AmendOrganization ==
    \E domain \in Domains :
       LET organization == Deref(organizations[1]) IN
       /\ organization.metadata.domain # Ptr(domain)
       /\ organizations' =
             [organizations EXCEPT ![1] =
                 Ptr([organization EXCEPT !.metadata.domain = Ptr(domain)])]
       /\ UNCHANGED <<users, issued, vaults, wallets, appOrgs, appConfig, fanout, vaultCreations,
                      broker, last, users, issued>>

\* a registration event for organization 1, whose metadata holds no address
\* and whose vault holds its keys
RaceInit ==
    /\ \E msg \in StreamMessages["registration"] :
          broker = [NoBroker EXCEPT !.subject = "registration", !.msg = msg]
    /\ organizations =
          [o \in OrgIds |->
             IF o = 1
             THEN Ptr([name |-> Ptr("acme"),
                       metadata |-> [address |-> Nil, domain |-> Ptr("acme.org"),
                                     messaging_endpoint |-> Ptr("nats://acme")]])
             ELSE Nil]
    /\ vaults = [o \in OrgIds |->
                    IF o = 1 THEN <<[name |-> <<"acme", " vault">>, keys |-> StreamVaultKeys]>>
                    ELSE <<>>]
    /\ wallets = [o \in OrgIds |-> 0]
    /\ appOrgs = {}
    /\ appConfig = NoBool
    /\ fanout = NoFanout
    /\ vaultCreations = [o \in OrgIds |-> 0]
    /\ last = NoOp
    /\ users = NoUsers
    /\ issued = {}

RaceNext ==
    \/ DeliverMessage
    \/ Tick
    \/ ResolveHandling
    \/ SubmitHandling
    \/ AmendOrganization

RaceSpec == RaceInit /\ [][RaceNext]_vars

----------------------------------------------------------------------------
(* The handshake: an init event of the trigger handled by the initiator,   *)
(* and the completion event it published handled by the responder          *)

\* the exchange signing key of an organization; its public key tells whose
ExchangeKeyOf(o) == Key(17, Ptr("ekho signing"), Ptr("Ed25519"), Nil, Ptr(<<o, o>>))

\* the completion events a trace published, as the stream holds them
CompletionEvents(calls) ==
    {c.arg[2] : c \in {calls[i] : i \in {j \in 1..Len(calls) :
                                            calls[j].call = "Publish" /\ calls[j].ok}}}

\* the initiator handles the init event of a pair of organizations of the
\* application; a published completion event is then in the stream
InitiateHandshake ==
    /\ Ready
    /\ \E org \in {1, 2}, peer \in {1, 2}, fail \in KexInitFailPoints,
          pk \in CreateKeyResponses :
          LET msg == KexInitMsg(JString(org), JString(peer))
              r == consumeOrganizationImplicitKeyExchangeInitMsg(msg, fail, pk)
          IN
          /\ org # peer
          /\ \A o \in OrgIds : \A v \in 1..Len(r.vaults[o]) :
                Len(r.vaults[o][v].keys) <= MaxKeys
          /\ vaults' = r.vaults
          /\ last' = LastOf("kexInit", msg, r)
          /\ broker' = IF CompletionEvents(r.calls) = {} THEN broker
                        ELSE [NoBroker EXCEPT
                                 !.subject = "kexComplete",
                                 !.msg = CHOOSE e \in CompletionEvents(r.calls) : TRUE]
          /\ UNCHANGED <<users, issued, organizations, wallets, appOrgs, appConfig, fanout, vaultCreations>>

\* the responder handles the completion event of the stream
RespondHandshake ==
    /\ Ready
    /\ broker.subject = "kexComplete"
    /\ \E fail \in KexCompleteFailPoints :
          LET r == consumeOrganizationImplicitKeyExchangeCompleteMsg(broker.msg, fail) IN
          /\ last' = LastOf("kexComplete", broker.msg, r)
          /\ UNCHANGED <<users, issued, organizations, vaults, wallets, appOrgs, appConfig, broker,
                         fanout, vaultCreations>>

\* organizations 1 and 2 exist, each with a vault that holds its exchange
\* signing key or no key
HandshakeInit ==
    /\ organizations =
          [o \in OrgIds |->
             IF o = 1 THEN Ptr([name |-> Ptr("acme"), metadata |-> NoMetadata])
             ELSE IF o = 2 THEN Ptr([name |-> Ptr("peer"), metadata |-> NoMetadata])
             ELSE Nil]
    /\ \E withKey \in [{1, 2} -> BOOLEAN] :
          vaults = [o \in OrgIds |->
                      IF o \in {1, 2}
                      THEN <<[name |-> <<"org", " vault">>,
                              keys |-> IF withKey[o] THEN <<ExchangeKeyOf(o)>> ELSE <<>>]>>
                      ELSE <<>>]
    /\ wallets = [o \in OrgIds |-> 0]
    /\ appOrgs = {}
    /\ appConfig = NoBool
    /\ fanout = NoFanout
    /\ vaultCreations = [o \in OrgIds |-> 0]
    /\ broker = NoBroker
    /\ last = NoOp
    /\ users = NoUsers
    /\ issued = {}

HandshakeNext == InitiateHandshake \/ RespondHandshake \/ Return

HandshakeSpec == HandshakeInit /\ [][HandshakeNext]_vars

----------------------------------------------------------------------------
(* The workers of the four subjects, serving one organization              *)

\* the vaults of organization 1: none, one without keys, one with an
\* exchange signing key (with or without public key and spec), one with the
\* keys of the registration
WorkerVaults ==
    {<<>>} \cup
    {<<[name |-> <<"acme", " vault">>, keys |-> keys]>> :
        keys \in {<<>>,
                  <<Key(17, Ptr("Ekho Signing"), Ptr("Ed25519"), Nil, Ptr(<<1, 2>>))>>,
                  <<Key(17, Ptr("ekho signing"), Nil, Nil, Nil)>>,
                  <<Key(17, Nil, Ptr("secp256k1"), Ptr("0xA"), Ptr(<<7, 8>>)),
                    Key(18, Nil, Ptr("babyJubJub"), Nil, Ptr(<<9, 9>>))>>}}

\* organization 1 exists, with or without a name, with domain and
\* messaging endpoint in its metadata
WorkerInit ==
    /\ \E name \in {Nil, Ptr("acme")} :
          organizations =
             [o \in OrgIds |->
                IF o = 1
                THEN Ptr([name |-> name,
                          metadata |-> [address |-> Nil, domain |-> Ptr("acme.org"),
                                        messaging_endpoint |-> Ptr("nats://acme")]])
                ELSE Nil]
    /\ \E vs \in WorkerVaults : vaults = [o \in OrgIds |-> IF o = 1 THEN vs ELSE <<>>]
    /\ wallets = [o \in OrgIds |-> 0]
    /\ appOrgs = {}
    /\ appConfig = NoBool
    /\ fanout = NoFanout
    /\ vaultCreations = [o \in OrgIds |-> 0]
    /\ broker = NoBroker
    /\ last = NoOp
    /\ users = NoUsers
    /\ issued = {}

WorkerNext ==
    \/ DeliverCreated
    \/ DeliverKexInit
    \/ DeliverKexComplete
    \/ DeliverRegistration
    \/ Return

WorkerSpec == WorkerInit /\ [][WorkerNext]_vars

----------------------------------------------------------------------------
(* Re-resolution: one init or registration event, redelivered while the    *)
(* organization's tooling creates its keys and while its row is removed     *)

\* the row of an organization is deleted; its vaults stay with the Vault
\* Service
RemoveOrganization ==
    \E o \in OrgIds :
       /\ organizations[o] # Nil
       /\ broker.handlings # <<>>
       /\ organizations' = [organizations EXCEPT ![o] = Nil]
       /\ UNCHANGED <<users, issued, vaults, wallets, appOrgs, appConfig, broker, fanout, vaultCreations,
                      last>>

\* organization 1 with domain and messaging endpoint and an empty vault; its
\* init event for peer 2 or its registration event is in the stream
RefetchInit ==
    /\ \E subject \in {"kexInit", "registration"} :
          \E msg \in StreamMessages[subject] :
             broker = [NoBroker EXCEPT !.subject = subject, !.msg = msg]
    /\ organizations =
          [o \in OrgIds |->
             IF o = 1
             THEN Ptr([name |-> Ptr("acme"),
                       metadata |-> [address |-> Nil, domain |-> Ptr("acme.org"),
                                     messaging_endpoint |-> Ptr("nats://acme")]])
             ELSE Nil]
    /\ vaults = [o \in OrgIds |->
                   IF o = 1 THEN <<[name |-> <<"acme", " vault">>, keys |-> <<>>]>> ELSE <<>>]
    /\ wallets = [o \in OrgIds |-> 0]
    /\ appOrgs = {}
    /\ appConfig = NoBool
    /\ fanout = NoFanout
    /\ vaultCreations = [o \in OrgIds |-> 0]
    /\ last = NoOp
    /\ users = NoUsers
    /\ issued = {}

RefetchNext ==
    \/ DeliverMessage
    \/ CompleteHandling
    \/ ExternalCreateKexKey
    \/ ExternalCreateRegKey
    \/ RemoveOrganization

RefetchSpec == RefetchInit /\ [][RefetchNext]_vars

----------------------------------------------------------------------------
(* The user API at work: users created, authenticated, read and updated    *)

\* the record of a request and its answer; fault: the database or the token
\* issuer failed in it
ApiCall(op, bearer, id, params, r, fault) ==
    [op |-> op, bearer |-> bearer, id |-> id, params |-> params, status |-> r.status,
     body |-> r.body, panicked |-> r.panicked, fault |-> fault]

\* no request body
NoParams == [json |-> FALSE]

\* the tokens a request can carry: none, or one the authentication vended
Bearers == {Nil} \cup {Ptr(t) : t \in issued}

\* the bodies of the create requests: first name, last name, email and
\* password, the email or the password left out, permissions asked for
CreateUserBodies ==
    {UserParams(JString("first"), JString("last"), JString(email), JString(<<1, 2>>),
                NoPermissions) : email \in {"a@x.io", "A@X.io", "nobody"}}
    \cup {UserParams(JString("first"), JString("last"), NoStr, JString(<<1, 2>>),
                     NoPermissions),
          UserParams(JString("first"), JString("last"), JString("b@x.io"), NoHex,
                     NoPermissions),
          UserParams(JString("first"), JString("last"), JString("b@x.io"),
                     JString(<<1, 2>>), [t |-> "number", v |-> DefaultSudoerPermission])}

\* the bodies of the authentication requests
AuthenticationBodies ==
    {UserParams(NoStr, NoStr, JString(email), JString(password), NoPermissions) :
        email \in Emails \ {"nobody"}, password \in Passwords}
    \cup {UserParams(NoStr, NoStr, JString("a@x.io"), NoHex, NoPermissions),
          UserParams(NoStr, NoStr, NoStr, JString(<<1, 2>>), NoPermissions)}

\* the bodies of the update requests: the four attributes at once, with
\* the new email in either spelling, or the password alone
UpdateUserBodies ==
    {UserParams(JString("joey"), JString("doe"), JString(email), JString(<<1, 3>>),
                NoPermissions) : email \in {"b@x.io", "A@X.io"}}
    \cup {UserParams(NoStr, NoStr, NoStr, JString(password), NoPermissions) :
            password \in {<<>>, LongPassword \o <<8>>}}

\* User.Create as its callers other than createUserHandler reach it: a user
\* with first name, last name, email and password, and the permissions of a
\* user or of a sudoer
CreateUser ==
    /\ Ready
    /\ \E email \in Emails, password \in Passwords,
       permissions \in {{}, DefaultSudoerPermission} :
       LET u == User(Ptr("first"), Ptr("last"), Ptr(email), Ptr(password), permissions)
           r == UserCreate(users, u, TRUE)
       IN
       /\ \E i \in UserIds : users[i] = Nil
       /\ users' = r.users
       /\ last' = [op |-> "User.Create", bearer |-> Nil, id |-> r.id,
                    params |-> UserParams(JString("first"), JString("last"), JString(email),
                                          JString(password), NoPermissions),
                    status |-> IF r.success THEN 201 ELSE 422,
                    body |-> r.errors, panicked |-> FALSE, fault |-> FALSE]
       /\ UNCHANGED <<issued, organizations, vaults, wallets, appOrgs, appConfig, fanout,
                      vaultCreations, broker>>

\* POST /api/v1/users
RequestCreateUser ==
    /\ Ready
    /\ \E bearer \in Bearers, params \in CreateUserBodies :
       \E ok \in (IF CreateUserForbidden(bearer) = "false" THEN BOOLEAN ELSE {TRUE}) :
       LET r == createUserHandler(bearer, params, ok) IN
       /\ users' = r.users
       /\ issued' = r.issued
       /\ last' = ApiCall("createUser", bearer, 0, params, r, ~ok)
       /\ UNCHANGED <<organizations, vaults, wallets, appOrgs, appConfig, fanout,
                      vaultCreations, broker>>

\* POST /api/v1/authenticate
RequestAuthenticate ==
    /\ Ready
    /\ \E bearer \in Bearers, params \in AuthenticationBodies :
       \E vend \in (IF authenticationHandler(bearer, params, "vended").status = 201
                     THEN VendResults ELSE {"vended"}) :
       LET r == authenticationHandler(bearer, params, vend) IN
       /\ users' = r.users
       /\ issued' = r.issued
       /\ last' = ApiCall("authenticate", bearer, 0, params, r, vend # "vended")
       /\ UNCHANGED <<organizations, vaults, wallets, appOrgs, appConfig, fanout,
                      vaultCreations, broker>>

\* PUT /api/v1/users/:id
RequestUpdateUser ==
    /\ Ready
    /\ \E bearer \in Bearers, id \in UserIds, params \in UpdateUserBodies :
       \E ok \in (IF updateUserHandler(bearer, id, params, TRUE).status = 204
                   THEN BOOLEAN ELSE {TRUE}) :
       LET r == updateUserHandler(bearer, id, params, ok) IN
       /\ users' = r.users
       /\ issued' = r.issued
       /\ last' = ApiCall("updateUser", bearer, id, params, r, ~ok)
       /\ UNCHANGED <<organizations, vaults, wallets, appOrgs, appConfig, fanout,
                      vaultCreations, broker>>

\* GET /api/v1/users/:id
RequestUserDetails ==
    /\ Ready
    /\ \E bearer \in Bearers, id \in UserIds :
       LET r == userDetailsHandler(bearer, id) IN
       /\ users' = r.users
       /\ issued' = r.issued
       /\ last' = ApiCall("userDetails", bearer, id, NoParams, r, FALSE)
       /\ UNCHANGED <<organizations, vaults, wallets, appOrgs, appConfig, fanout,
                      vaultCreations, broker>>

\* no user yet, no token vended; a request is made when the answer to the
\* one before has been read
UserInit ==
    /\ organizations = [o \in OrgIds |-> Nil]
    /\ vaults = [o \in OrgIds |-> <<>>]
    /\ wallets = [o \in OrgIds |-> 0]
    /\ appOrgs = {}
    /\ appConfig = NoBool
    /\ fanout = NoFanout
    /\ vaultCreations = [o \in OrgIds |-> 0]
    /\ broker = NoBroker
    /\ last = NoOp
    /\ users = NoUsers
    /\ issued = {}

UserNext ==
    \/ CreateUser
    \/ RequestCreateUser
    \/ RequestAuthenticate
    \/ RequestUpdateUser
    \/ RequestUserDetails
    \/ Return

UserSpec == UserInit /\ [][UserNext]_vars

----------------------------------------------------------------------------
(* Password resets: users are created, reset tokens requested and          *)
(* presented                                                               *)

\* the record of a reset request or a reset and its answer
ResetCall(op, token, params, r, fault) ==
    [op |-> op, token |-> token, params |-> params, status |-> r.status,
     body |-> r.body, panicked |-> r.panicked, fault |-> fault]

\* the bodies of the reset requests: the email of a user as stored or in
\* another spelling, or none
ResetRequestBodies ==
    {UserParams(NoStr, NoStr, JString(email), NoHex, NoPermissions) :
        email \in {"a@x.io", "A@X.io", "b@x.io"}}
    \cup {UserParams(NoStr, NoStr, NoStr, NoHex, NoPermissions), NoParams}

\* the bodies of the resets: a password, the empty password, or none
ResetPasswords == {<<1, 2>>, <<1, 3>>, <<>>}

ResetBodies ==
    {UserParams(NoStr, NoStr, NoStr, JString(password), NoPermissions) :
        password \in ResetPasswords}
    \cup {UserParams(NoStr, NoStr, NoStr, NoHex, NoPermissions), NoParams}

\* the tokens a reset can carry: one that was handed out, one made up for
\* a user (the signature is not checked), a string that is no token
RawTokens == issued \cup {ResetToken(id, 0) : id \in UserIds} \cup {NotAToken}

\* POST /api/v1/users/reset_password
RequestResetPassword ==
    /\ Ready
    /\ Cardinality(issued) < MaxResetTokens
    /\ \E params \in ResetRequestBodies :
       \E ok \in (IF userResetPasswordRequestHandler(params, TRUE).status = 201
                   THEN BOOLEAN ELSE {TRUE}) :
       LET r == userResetPasswordRequestHandler(params, ok) IN
       /\ users' = r.users
       /\ issued' = r.issued
       /\ last' = ResetCall("resetPasswordRequest", NotAToken, params, r, ~ok)
       /\ UNCHANGED <<organizations, vaults, wallets, appOrgs, appConfig, fanout,
                      vaultCreations, broker>>

\* POST /api/v1/users/reset_password/:token
ResetPassword ==
    /\ Ready
    /\ \E rawToken \in RawTokens, params \in ResetBodies :
       \E ok \in (IF userResetPasswordHandler(rawToken, params, TRUE).status = 204
                   THEN BOOLEAN ELSE {TRUE}) :
       LET r == userResetPasswordHandler(rawToken, params, ok) IN
       /\ users' = r.users
       /\ issued' = r.issued
       /\ last' = ResetCall("resetPassword", rawToken, params, r, ~ok)
       /\ UNCHANGED <<organizations, vaults, wallets, appOrgs, appConfig, fanout,
                      vaultCreations, broker>>

ResetNext ==
    \/ CreateUser
    \/ RequestResetPassword
    \/ ResetPassword
    \/ Return

ResetSpec == UserInit /\ [][ResetNext]_vars

----------------------------------------------------------------------------
(* The organization API: createOrganizationHandler,                        *)
(* organizationDetailsHandler                                              *)

\* the JSON object of a create request
OrganizationParams(name, description, permissions) ==
    [json |-> TRUE, name |-> name, description |-> description,
     permissions |-> permissions]

OrganizationBodies ==
    {OrganizationParams(JString(n), JString(d), NoPermissions) :
        n \in {"org1", "org2"}, d \in {"org1 desc", "org2 desc"}}
    \cup {OrganizationParams(JString("org1"), NoStr, NoPermissions),
          OrganizationParams(JString("org1"), JString("org1 desc"),
                             [t |-> "number", v |-> DefaultSudoerPermission]),
          NoParams}

\* org.Create(tx) and tx.Commit(): the row is inserted under the next free
\* id and its created event is published.  ok: the database answers
OrganizationCreate(org, ok) ==
    LET free == {o \in OrgIds : organizations[o] = Nil}
        id == IF free = {} THEN 0 ELSE CHOOSE o \in free : \A p \in free : o <= p
    IN IF ok /\ id # 0
       THEN [success |-> TRUE, id |-> id,
             organizations |-> [organizations EXCEPT ![id] = Ptr(org)]]
       ELSE [success |-> FALSE, id |-> 0, organizations |-> organizations]

\* the answer of an organization handler, with the table it leaves
RenderOrganization(body, status, orgs, id) ==
    [status |-> status, body |-> body, panicked |-> FALSE, organizations |-> orgs,
     id |-> id]

createOrganizationHandler(bearer, params, ok) ==
    IF bearer = Nil
    THEN [RenderOrganization("panic", 500, organizations, 0) EXCEPT !.panicked = TRUE]
    ELSE IF Deref(bearer).user_id = Nil
    THEN RenderOrganization("unauthorized", 401, organizations, 0)
    ELSE IF ~params.json THEN RenderOrganization("unmarshal", 400, organizations, 0)
    ELSE
      LET org == [name |-> Unmarshalled(params.name, Nil),
                  description |-> Unmarshalled(params.description, Nil),
                  metadata |-> NoMetadata,
                  user_id |-> Deref(bearer).user_id]
      IN
      IF params.permissions.t # "absent"
      THEN RenderOrganization("unable to assert arbitrary organization permissions", 403,
                              organizations, 0)
      ELSE
        LET r == OrganizationCreate(org, ok) IN
        IF r.success
        THEN RenderOrganization([id |-> r.id, name |-> org.name,
                                 description |-> org.description],
                                201, r.organizations, r.id)
        ELSE RenderOrganization("errors", 422, organizations, 0)

\* func organizationDetailsHandler(c *gin.Context) {
\*     provide.RenderError("not implemented", 501, c) }
organizationDetailsHandler(bearer, id) ==
    RenderOrganization("not implemented", 501, organizations, id)

\* POST /api/v1/organizations
RequestCreateOrganization ==
    /\ Ready
    /\ \E bearer \in Bearers, params \in OrganizationBodies :
       \E ok \in (IF createOrganizationHandler(bearer, params, TRUE).status = 201
                   THEN BOOLEAN ELSE {TRUE}) :
       LET r == createOrganizationHandler(bearer, params, ok) IN
       /\ \E o \in OrgIds : organizations[o] = Nil
       /\ organizations' = r.organizations
       /\ broker' = IF r.status = 201
                     THEN [NoBroker EXCEPT !.subject = "created",
                                           !.msg = CreatedMsg(JString(r.id))]
                     ELSE broker
       /\ last' = ApiCall("createOrganization", bearer, r.id, params, r, ~ok)
       /\ UNCHANGED <<users, issued, vaults, wallets, appOrgs, appConfig, fanout,
                      vaultCreations>>

\* GET /api/v1/organizations/:id, without token, with the token of a user
\* or with a token scoped to an organization
RequestOrganizationDetails ==
    /\ Ready
    /\ \E bearer \in Bearers \cup {Ptr(OrgToken(o)) : o \in OrgIds}, id \in OrgIds :
       LET r == organizationDetailsHandler(bearer, id) IN
       /\ last' = ApiCall("organizationDetails", bearer, id, NoParams, r, FALSE)
       /\ UNCHANGED <<users, issued, organizations, vaults, wallets, appOrgs, appConfig,
                      fanout, vaultCreations, broker>>

\* a user with the default permissions and the token of an authentication
OrganizationApiInit ==
    /\ organizations = [o \in OrgIds |-> Nil]
    /\ vaults = [o \in OrgIds |-> <<>>]
    /\ wallets = [o \in OrgIds |-> 0]
    /\ appOrgs = {}
    /\ appConfig = NoBool
    /\ fanout = NoFanout
    /\ vaultCreations = [o \in OrgIds |-> 0]
    /\ broker = NoBroker
    /\ last = NoOp
    /\ users = UserCreate(NoUsers, User(Ptr("first"), Ptr("last"), Ptr("a@x.io"),
                                        Ptr(<<1, 2>>), {}), TRUE).users
    /\ issued = {UserToken(1, DefaultUserPermission)}

OrganizationApiNext ==
    \/ RequestCreateOrganization
    \/ RequestOrganizationDetails
    \/ Return

OrganizationApiSpec == OrganizationApiInit /\ [][OrganizationApiNext]_vars

----------------------------------------------------------------------------
(* Claims about the Vault Provisioner, under ProvisionSpec *)

\* no collaborator call of the operation returned an error and nothing panicked
FaultFree(l) == ~l.recovered /\ \A i \in 1..Len(l.calls) : l.calls[i].ok

C4_Step ==
    last'.op = "created" =>
      LET t == Target(last'.msg) IN
      /\ last'.outcome \in {"Ack", "Nak"}
      /\ (last'.outcome = "Ack") <=> Succeeded(last'.calls, "CreateVault")
      /\ Len(CallsTo(last'.calls, "CreateVault")) <= 1
      /\ (t = 0 \/ organizations[t] = Nil) =>
            /\ last'.outcome = "Nak"
            /\ CallsTo(last'.calls, "CreateVault") = <<>>
            /\ vaults' = vaults
      /\ (t # 0 /\ organizations[t] # Nil /\ FaultFree(last')) =>
            /\ last'.outcome = "Ack"
            /\ vaults[t] = <<>> => Len(vaults'[t]) = 1
            /\ \A o \in OrgIds \ {t} : vaults'[o] = vaults[o]
      /\ ~FaultFree(last') => last'.outcome = "Nak" /\ vaults' = vaults

\* C4: a delivery of an organization-created event is acknowledged exactly
\* when its vault creation call succeeded; for an unknown organization id it
\* is negative-acknowledged and creates no vault; for an existing
\* organization without a vault it creates exactly one vault and is
\* acknowledged unless the token issuer, the Vault Service or the handler
\* itself fails, and every such failure is a negative-acknowledgment.
C4_ProvisionOutcome == [][C4_Step]_vars

C4_Witness ==
    /\ last.op = "created" /\ last.outcome = "Ack"
    /\ Len(vaults[Target(last.msg)]) = 1

\* C7: the provisioner has no idempotency guard: each organization has as
\* many vaults as deliveries of its created event whose vault creation
\* succeeded, so a second handling of the event makes a second vault.
C7_NotIdempotent == \A o \in OrgIds : Len(vaults[o]) = vaultCreations[o]

C7_Witness ==
    /\ last.op = "created" /\ last.outcome = "Ack"
    /\ Len(vaults[Target(last.msg)]) = 2
    /\ vaultCreations[Target(last.msg)] = 2

----------------------------------------------------------------------------
(* Claims about the key-exchange stages, under KexSpec *)

\* the key carries the conventional name of the exchange signing key
NamedExchangeSigningKey(key) ==
    key.name \in {Ptr("ekho signing"), Ptr("Ekho Signing"), Ptr("EKHO SIGNING")}

\* the first vault of the organization holds an exchange signing key
HasExchangeSigningKey(vs, o) ==
    /\ vs[o] # <<>>
    /\ \E i \in 1..Len(vs[o][1].keys) : NamedExchangeSigningKey(vs[o][1].keys[i])

\* the first key of the first vault that carries the name
ExchangeSigningKey(vs, o) ==
    LET keys == vs[o][1].keys
        i == CHOOSE i \in 1..Len(keys) :
                /\ NamedExchangeSigningKey(keys[i])
                /\ \A j \in 1..(i - 1) : ~NamedExchangeSigningKey(keys[j])
    IN keys[i]

C5_Step ==
    last'.op = "kexInit" =>
      LET t == Target(last'.msg) IN
      (t = 0 \/ ~HasExchangeSigningKey(vaults, t)) =>
         /\ PublishCalls(last'.calls) = <<>>
         /\ CallsTo(last'.calls, "CreateKey") = <<>>
         /\ vaults' = vaults
         /\ last'.outcome = "Nak"

\* C5: a key-exchange-init delivery for an organization that has no vault,
\* or whose first vault holds no key named as the exchange signing key
\* (whatever its other vaults hold), publishes no completion event, creates
\* no key and is negative-acknowledged.
C5_NoSigningKeyNoCompletion == [][C5_Step]_vars

\* the first vault has keys but none is the signing key, the second vault
\* holds one, and the delivery got as far as listing the keys
C5_Witness ==
    /\ last.op = "kexInit" /\ last.outcome = "Nak" /\ last.diag = "signing key"
    /\ LET t == Target(last.msg) IN
         /\ Len(vaults[t]) >= 2
         /\ vaults[t][1].keys # <<>>
         /\ ~HasExchangeSigningKey(vaults, t)
         /\ \E i \in 1..Len(vaults[t][2].keys) : NamedExchangeSigningKey(vaults[t][2].keys[i])

\* C8: an init delivery is acknowledged only if the completion event was
\* published successfully.
C8_AckOnlyAfterPublish ==
    (last.op = "kexInit" /\ last.outcome = "Ack") => Succeeded(last.calls, "Publish")

\* C9: every completion event carries the signature, by the organization's
\* exchange signing key, of the raw public key of the ephemeral key, and the
\* public key and spec of that signing key.
C9_SignedByExchangeSigningKey ==
    last.op = "kexInit" =>
      \A i \in 1..Len(last.calls) :
         last.calls[i].call = "Publish" =>
           LET event == last.calls[i].arg[2]
               signingKey == ExchangeSigningKey(vaults, Target(last.msg))
           IN /\ event.signing_key.v = Deref(signingKey.public_key)
              /\ event.signing_spec.v = Deref(signingKey.spec)
              /\ event.signature.v =
                    HexEncodeToString(Signature(signingKey.id, HexBytes(event.public_key.v)))

\* C10: the responder never acknowledges: every exchange-complete delivery
\* ends in a negative-acknowledgment.
C10_ResponderNeverAcks == last.op = "kexComplete" => last.outcome = "Nak"

\* a well-formed completion event reached the derivation of the shared secret
C10_Witness ==
    /\ last.op = "kexComplete" /\ last.outcome = "Nak" /\ last.diag = "shared secret"
    /\ HasExchangeSigningKey(vaults, Target(last.msg))

----------------------------------------------------------------------------
(* Claims about the Registration Coordinator, checked under RegSpec *)

\* the index of the first key of a spec in a list of keys, 0 if none
FirstOfSpec(keys, spec) ==
    LET hits == {i \in 1..Len(keys) : keys[i].spec = Ptr(spec)}
    IN IF hits = {} THEN 0 ELSE CHOOSE i \in hits : \A j \in hits : i <= j

\* the address of the first secp256k1 key of the organization's first vault
KeyAddress(o) ==
    IF Len(vaults[o]) = 0 THEN Nil
    ELSE LET keys == vaults[o][1].keys
             i == FirstOfSpec(keys, "secp256k1")
         IN IF i = 0 THEN Nil ELSE keys[i].address

\* the public key of the first babyJubJub key of the organization's first vault
ZeroKnowledgeKey(o) ==
    IF Len(vaults[o]) = 0 THEN Nil
    ELSE LET keys == vaults[o][1].keys
             i == FirstOfSpec(keys, "babyJubJub")
         IN IF i = 0 THEN Nil ELSE keys[i].public_key

\* a well-formed registration event for an organization that exists
RegistrationEvent(l) ==
    /\ l.op = "registration"
    /\ l.msg.json
    /\ IsString(l.msg.organization_id)
    /\ IsString(l.msg.application_id)
    /\ IsUUID(l.msg.application_id.v)
    /\ FindOrganization(l.msg.organization_id.v) # Nil

\* the attributes of organization o that cannot be resolved
MissingFields(o) ==
    LET metadata == Deref(organizations[o]).metadata IN
    (IF KeyAddress(o) \in {Nil, Ptr("")} THEN {"address"} ELSE {}) \cup
    (IF metadata.domain \in {Nil, Ptr("")} THEN {"domain"} ELSE {}) \cup
    (IF metadata.messaging_endpoint \in {Nil, Ptr("")}
     THEN {"messaging_endpoint"} ELSE {}) \cup
    (IF ZeroKnowledgeKey(o) \in {Nil, Ptr(<<>>)}
     THEN {"zero-knowledge public key"} ELSE {})

\* the contract execution of the delivery failed
BroadcastFailed(l) ==
    /\ l.op = "registration"
    /\ \E i \in 1..Len(l.calls) : l.calls[i].call = "ExecuteContract" /\ ~l.calls[i].ok

\* C1: when the contract execution of a registration delivery fails, an Ack
\* is issued for that delivery.
C1_AckOnBroadcastFailure == BroadcastFailed(last) => last.outcome = "Ack"

\* the listed contracts of a declared type, and those that have an address
OfType(contracts, type) == {i \in 1..Len(contracts) : contracts[i].type = Ptr(type)}
Deployed(contracts) == {i \in 1..Len(contracts) : contracts[i].address # Nil}

\* exactly one deployed contract of each required registry type
OneOfEach(contracts) ==
    \A type \in {"erc1820-registry", "organization-registry"} :
       /\ Cardinality(OfType(contracts, type)) = 1
       /\ OfType(contracts, type) \subseteq Deployed(contracts)

\* a delivery of a well-formed event for an organization with all four
\* attributes and one contract of each registry type, every collaborator
\* answering
C2_Case ==
    /\ RegistrationEvent(last)
    /\ FaultFree(last)
    /\ MissingFields(Target(last.msg)) = {}
    /\ OneOfEach(last.contracts)

\* C2: such a delivery makes exactly one contract execution call, on the
\* organization registry, with the parameters (address, name, domain,
\* messaging_endpoint, zk_public_key, "{}") in that order; the method is
\* updateOrg exactly when update_registry is the boolean true, and
\* registerOrg otherwise.
C2_SingleExecution ==
    C2_Case =>
      LET o == Target(last.msg)
          row == Deref(organizations[o])
          update == last.msg.update_registry
          executions == CallsTo(last.calls, "ExecuteContract")
      IN /\ Len(executions) = 1
         /\ {executions[1].arg.contract} = OfType(last.contracts, "organization-registry")
         /\ executions[1].arg.params =
               <<Deref(KeyAddress(o)), Deref(row.name), Deref(row.metadata.domain),
                 Deref(row.metadata.messaging_endpoint), Deref(ZeroKnowledgeKey(o)), "{}">>
         /\ executions[1].arg.method =
               IF IsBool(update) /\ update.v THEN "updateOrg" ELSE "registerOrg"

\* an update of the registry was executed and acknowledged
C2_Witness ==
    /\ C2_Case
    /\ last.outcome = "Ack"
    /\ \E i \in 1..Len(last.calls) :
          /\ last.calls[i].call = "ExecuteContract"
          /\ last.calls[i].arg.method = "updateOrg"

\* C3: a registration delivery is acknowledged only if address, domain,
\* messaging_endpoint and zero-knowledge public key were all resolved; if
\* one of them is missing the delivery is negative-acknowledged, and when
\* every collaborator answered the diagnostic names a missing attribute.
C3_AckNeedsAllFour ==
    last.op = "registration" =>
      /\ last.outcome = "Ack" =>
            RegistrationEvent(last) /\ MissingFields(Target(last.msg)) = {}
      /\ (RegistrationEvent(last) /\ MissingFields(Target(last.msg)) # {}) =>
            /\ last.outcome = "Nak"
            /\ FaultFree(last) => last.diag \in MissingFields(Target(last.msg))

\* only the zero-knowledge public key is missing, and the diagnostic says so
C3_Witness ==
    /\ RegistrationEvent(last)
    /\ FaultFree(last)
    /\ MissingFields(Target(last.msg)) = {"zero-knowledge public key"}
    /\ last.outcome = "Nak"
    /\ last.diag = "zero-knowledge public key"

----------------------------------------------------------------------------
(* Claims about the Onboarding Trigger, checked under TriggerSpec *)

\* both goroutines of the association of o have returned
TriggerComplete(o) ==
    fanout[o].registration.pc = "returned" /\ fanout[o].keyExchange.pc = "returned"

\* no organization was associated between the insert and the listing
Undisturbed(o) == fanout[o].listed = fanout[o].others

----------------------------------------------------------------------------
(* The order of the steps, the application token and the metadata update   *)
(* of the Registration Coordinator, checked under RegSpec                  *)

\* the positions of the calls of a trace to one collaborator operation
CallIndexes(calls, name) == {i \in 1..Len(calls) : calls[i].call = name}

\* the delivery was negative-acknowledged because a registry contract could
\* not be resolved
RegistryUnresolved(l) ==
    /\ l.op = "registration"
    /\ l.outcome = "Nak"
    /\ l.diag \in {"erc1820 registry", "organization registry"}

\* C12: the HD wallet is provisioned only after the contracts have been
\* listed and classified, and a delivery that is negative-acknowledged
\* because one of the two registry contracts cannot be resolved provisions
\* no wallet.
C12_WalletAfterRegistries ==
    last.op = "registration" =>
      /\ \A w \in CallIndexes(last.calls, "CreateWallet") :
            \A c \in CallIndexes(last.calls, "GetContractDetails") : c < w
      /\ RegistryUnresolved(last) => CallIndexes(last.calls, "CreateWallet") = {}

\* the delivery vended an application token
MintedApplicationToken(l) ==
    \E i \in 1..Len(l.calls) :
       l.calls[i].call = "Vend" /\ l.calls[i].token.sub = "application"

\* a row of the tokens table carries the offline_access scope
HasOfflineAccessToken(tokens) ==
    \E i \in 1..Len(tokens) : tokens[i].scope = "offline_access"

\* C13: the token that lists the contracts and executes the registry
\* contract is an application token for the application_id of the event
\* with the offline_access scope, and a delivery that lists the contracts
\* has vended a new one exactly when the application had no stored token
\* with that scope.
C13_OfflineAccessToken ==
    last.op = "registration" =>
      /\ \A i \in 1..Len(last.calls) :
            last.calls[i].call \in {"ListContracts", "ExecuteContract"} =>
               /\ last.calls[i].token.sub = "application"
               /\ last.calls[i].token.id = last.msg.application_id.v
               /\ last.calls[i].token.scope = "offline_access"
      /\ CallIndexes(last.calls, "ListContracts") # {} =>
            (MintedApplicationToken(last) <=> ~HasOfflineAccessToken(last.tokens))

C14_Step ==
    (last'.op = "registration" /\ RegistrationEvent(last')) =>
      LET o == Target(last'.msg)
          row == Deref(organizations[o])
          updates == CallsTo(last'.calls, "Update")
      IN /\ row.metadata.address # Nil =>
               updates = <<>> /\ organizations' = organizations
         /\ last'.outcome # "Ack" =>
               updates = <<>> /\ organizations' = organizations
         /\ (row.metadata.address = Nil /\ last'.outcome = "Ack") =>
               /\ Len(updates) = 1
               /\ organizations' =
                     IF updates[1].ok
                     THEN [organizations EXCEPT
                              ![o] = Ptr([row EXCEPT !.metadata.address = KeyAddress(o)])]
                     ELSE organizations

----------------------------------------------------------------------------
(* When the Onboarding Trigger fires and what its caller sees, checked     *)
(* under TriggerSpec; pairwise coverage, checked under TxTriggerSpec       *)

\* no goroutine was started for o and nothing was published on its behalf
NoTrigger(o) ==
    /\ fanout[o].registration = Goroutine("idle", <<>>, <<>>)
    /\ fanout[o].keyExchange = Goroutine("idle", <<>>, <<>>)

\* C17: no registration event and no key-exchange-init event is published
\* for an organization when the application's configuration does not hold
\* the boolean true under baselined (no flag, a false one, a value of
\* another type), or when the insert of the association did not affect
\* exactly one row.
C17_OnlyBaselinedAndInserted ==
    \A o \in AppOrgIds :
       (appConfig # JBool(TRUE) \/ o \notin appOrgs) => NoTrigger(o)

\* the flag is false: one organization was associated, the insert of
\* another failed, and nothing was started for either
C17_Witness ==
    /\ appConfig = JBool(FALSE)
    /\ \E o \in appOrgs : fanout[o].results = <<TRUE>> /\ NoTrigger(o)
    /\ \E o \in AppOrgIds \ appOrgs : fanout[o].results = <<FALSE>> /\ NoTrigger(o)

\* the publishes made so far on behalf of the association of o
TriggerCalls(f, o) == f[o].registration.calls \o f[o].keyExchange.calls

C18_Step ==
    \A o \in AppOrgIds :
       /\ fanout'[o].results # fanout[o].results =>
             /\ fanout'[o].results = <<o \in appOrgs'>>
             /\ TriggerCalls(fanout', o) = <<>>
       /\ TriggerCalls(fanout', o) # TriggerCalls(fanout, o) =>
             /\ fanout'[o].results = fanout[o].results
             /\ appOrgs' = appOrgs
             /\ \A p \in AppOrgIds \ {o} : fanout'[p] = fanout[p]
       /\ fanout'[o].registration.pc = "returned" =>
             Len(fanout'[o].registration.calls) = 1
       /\ fanout'[o].keyExchange.pc = "returned" =>
             Len(fanout'[o].keyExchange.calls) = 2 * Cardinality(fanout'[o].listed)

\* C18: addOrganization returns whether its insert affected one row, and it
\* returns before any publish is attempted; the publishes that follow,
\* failed or not, change neither that result nor the associations nor the
\* fan-out of another organization, and a failed publish is not repeated:
\* the fan-out ends after one registration publish and two publishes per
\* listed peer.
C18_FireAndForget == [][C18_Step]_vars

\* the association returned true and a publish of its fan-out failed
C18_Witness ==
    \E o \in appOrgs :
       /\ TriggerComplete(o)
       /\ fanout[o].results = <<TRUE>>
       /\ \E i \in 1..Len(TriggerCalls(fanout, o)) : ~TriggerCalls(fanout, o)[i].ok

\* the association of o is committed and its goroutines have returned
Settled(o) == o \in appOrgs /\ fanout[o].tx # "open" /\ TriggerComplete(o)

\* some goroutine handed the init event (a, b) to the broker
KexInitPublished(a, b) ==
    \E o \in AppOrgIds :
       \E i \in 1..Len(fanout[o].keyExchange.calls) :
          fanout[o].keyExchange.calls[i].arg =
             <<"ident.organization.keys.exchange.init",
               KexInitMsg(JString(a), JString(b))>>

\* C19: for every two organizations associated with the baselined
\* application, once their associations are committed and their fan-outs
\* have run, an init event was published in each direction, also when the
\* associations were made concurrently or inside transactions.
C19_PairwiseCoverage ==
    \A a, b \in AppOrgIds :
       (a # b /\ Settled(a) /\ Settled(b)) =>
          KexInitPublished(a, b) /\ KexInitPublished(b, a)

----------------------------------------------------------------------------
(* Redelivery while a handling is in flight, checked under RedeliverySpec  *)

\* the handling made the calls that change the collaborators' state
SideEffects(subject, h) ==
    CASE subject = "created" -> Succeeded(h.calls, "CreateVault")
      [] subject = "kexInit" ->
           Succeeded(h.calls, "CreateKey") /\ PublishCalls(h.calls) # <<>>
      [] subject = "registration" ->
           Succeeded(h.calls, "CreateWallet") /\ Succeeded(h.calls, "ExecuteContract")
      [] OTHER -> TRUE

\* the wallets the contract executions of a handling sign with
ExecutionWallets(h) ==
    {h.calls[i].arg.wallet_id : i \in CallIndexes(h.calls, "ExecuteContract")}

\* C20: a delivery made while an earlier delivery of the same message is
\* still in flight goes to another worker, and when no Nak caused it the
\* message had been waiting for the ack wait of its subject: 60 s for the
\* registration subject, 5 s for the three others.  When both handlers
\* return without a failure of a collaborator both have made their side
\* effects: two vaults after two handlings of a created event, two wallets
\* and two contract executions, each with its own wallet, after two
\* handlings of a registration event.
C20_ConcurrentRedelivery ==
    \A e \in 1..Len(broker.handlings) :
       \A d \in broker.handlings[e].concurrent :
          LET first == broker.handlings[d]
              second == broker.handlings[e]
          IN /\ d < e
             /\ second.worker # first.worker
             /\ second.cause # "first"
             /\ second.cause = "ackwait" =>
                   second.waited >= (IF broker.subject = "registration" THEN 60 ELSE 5)
             /\ (/\ first.pc = "done" /\ FaultFree(first)
                 /\ second.pc = "done" /\ FaultFree(second)) =>
                   /\ SideEffects(broker.subject, first)
                   /\ SideEffects(broker.subject, second)
                   /\ broker.subject = "created" => Len(vaults[1]) >= 2
                   /\ broker.subject = "registration" =>
                         /\ wallets[1] >= 2
                         /\ ExecutionWallets(first) \cap ExecutionWallets(second) = {}

\* a registration event was redelivered after 60 s to a second worker while
\* the first was handling it, and both handlings created a wallet and
\* executed the contract
C20_Witness ==
    /\ broker.subject = "registration"
    /\ Len(broker.handlings) >= 2
    /\ 1 \in broker.handlings[2].concurrent
    /\ broker.handlings[2].waited = 60
    /\ \A d \in 1..2 :
          /\ broker.handlings[d].pc = "done"
          /\ FaultFree(broker.handlings[d])
          /\ broker.handlings[d].outcome = "Ack"
    /\ wallets[1] = 2

----------------------------------------------------------------------------
(* On whose behalf the completion event is handled, checked under          *)
(* HandshakeSpec                                                           *)

\* the responder has handled the completion event of the stream
CompletionHandled ==
    /\ last.op = "kexComplete"
    /\ broker.subject = "kexComplete"
    /\ last.msg = broker.msg

\* C11: the responder handles a completion event, published for an init
\* event (organization_id O, peer_organization_id P), for P: the
\* organization it looks up is P, and the token it vends and lists the
\* vaults and keys with is that of P.
C11_HandledForPeer ==
    CompletionHandled =>
       LET P == last.msg.peer_organization_id.v IN
       \A i \in 1..Len(last.calls) :
          /\ last.calls[i].call = "db.Find" => last.calls[i].arg = P
          /\ last.calls[i].token # NoToken => last.calls[i].token.id = P

----------------------------------------------------------------------------
(* Faults and malformed events in the four handlers, checked under         *)
(* WorkerSpec                                                              *)

C15_Step ==
    /\ last'.recovered => last'.outcome = "Nak"
    /\ last.recovered =>
          /\ last' = NoOp
          /\ UNCHANGED <<users, issued, organizations, vaults, wallets, appOrgs, appConfig, fanout,
                         vaultCreations, broker>>

\* C15: a panic raised in a handler ends in a negative-acknowledgment of
\* the message being handled, and the next step of the worker is its
\* return to the subscription loop, where it takes the next delivery.
C15_PanicBecomesNak == [][C15_Step]_vars

\* the registration handler panicked on the missing name of the
\* organization, after it had created the wallet
C15_Witness ==
    /\ last.op = "registration"
    /\ last.recovered
    /\ last.outcome = "Nak"
    /\ Succeeded(last.calls, "CreateWallet")
    /\ Deref(organizations[Target(last.msg)]).name = Nil

\* the event of a subject is no JSON object, or a required field of the
\* subject is missing or no string, or the application id is no UUID
Malformed(op, msg) ==
    \/ ~msg.json
    \/ ~IsString(msg.organization_id)
    \/ /\ op \in {"kexInit", "kexComplete"}
       /\ ~IsString(msg.peer_organization_id)
    \/ /\ op = "kexComplete"
       /\ \/ ~IsString(msg.public_key)
          \/ ~IsString(msg.signature)
          \/ ~IsString(msg.signing_key)
    \/ /\ op = "registration"
       /\ ~IsString(msg.application_id) \/ msg.application_id.v = 0

\* C16: on each of the four subjects a malformed event is
\* negative-acknowledged without any call to the database, the token
\* issuer, the Vault Service or the Ledger Service and without a publish.
C16_MalformedHandledLocally ==
    (last.op # "none" /\ Malformed(last.op, last.msg)) =>
       /\ last.outcome = "Nak"
       /\ last.calls = <<>>
       /\ ~last.recovered

\* a completion event for an existing organization whose signature is missing
C16_Witness ==
    /\ last.op = "kexComplete"
    /\ last.msg.json
    /\ IsString(last.msg.organization_id)
    /\ organizations[last.msg.organization_id.v] # Nil
    /\ IsString(last.msg.peer_organization_id)
    /\ IsString(last.msg.public_key)
    /\ IsString(last.msg.signing_key)
    /\ ~IsString(last.msg.signature)
    /\ last.outcome = "Nak"
    /\ last.calls = <<>>

----------------------------------------------------------------------------
(* The race on the metadata, checked under RaceSpec                        *)

\* the metadata a handling writes: the metadata of the row as it read it,
\* with the address of the organization's first secp256k1 key
WrittenBy(h) ==
    [ParseMetadata(Deref(Deref(h.held).organization)) EXCEPT !.address = KeyAddress(1)]

C21_Step ==
    \A d \in 1..Len(broker.handlings) :
       LET h == broker'.handlings[d] IN
       (broker.handlings[d].pc = "inflight" /\ h.pc = "done") =>
          /\ Succeeded(h.calls, "ExecuteContract") => h.outcome = "Ack"
          /\ IF Succeeded(h.calls, "Update")
             THEN Deref(organizations'[1]).metadata = WrittenBy(h)
             ELSE organizations' = organizations

\* C21: a registration handling that has executed the contract is
\* acknowledged whatever other handlings and other writers did to the row
\* since it read it and whatever its own update returned, and when its
\* update is made the metadata of the row is from then on the one this
\* handling read, with the address: the last of several updates is the one
\* that stays.  A handling that makes no update leaves the row as it is.
C21_LastWriteWins == [][C21_Step]_vars

\* two handlings of one event were in flight together and both read the row
\* before either wrote it; the domain was changed between their reads; the
\* second delivery wrote first and the first wrote last, and the row holds
\* what the first had read
C21_Witness ==
    /\ Len(broker.handlings) >= 2
    /\ 1 \in broker.handlings[2].concurrent
    /\ \A d \in 1..2 : broker.handlings[d].pc = "done" /\ broker.handlings[d].outcome = "Ack"
    /\ broker.handlings[2].write = 1
    /\ broker.handlings[1].write = 2
    /\ WrittenBy(broker.handlings[1]) # WrittenBy(broker.handlings[2])
    /\ Deref(organizations[1]).metadata = WrittenBy(broker.handlings[1])

----------------------------------------------------------------------------
(* The keys of the vaults, checked under WorkerSpec                        *)

\* keys begins with the keys of before
Extends(keys, before) ==
    Len(keys) >= Len(before) /\ SubSeq(keys, 1, Len(before)) = before

C22_Step ==
    /\ \A o \in OrgIds :
          /\ Len(vaults'[o]) >= Len(vaults[o])
          /\ \A v \in 1..Len(vaults[o]) : Extends(vaults'[o][v].keys, vaults[o][v].keys)
          /\ \A v \in (Len(vaults[o]) + 1)..Len(vaults'[o]) : vaults'[o][v].keys = <<>>
    /\ IF last'.op = "kexInit" /\ Succeeded(last'.calls, "CreateKey")
       THEN LET o == Target(last'.msg) IN
            /\ HasExchangeSigningKey(vaults, o)
            /\ TotalKeys(vaults') = TotalKeys(vaults) + 1
            /\ vaults'[o][1].keys[Len(vaults'[o][1].keys)].spec = Ptr("C25519")
       ELSE TotalKeys(vaults') = TotalKeys(vaults)

\* C22: in every step of a worker each vault keeps the keys it had, in
\* their order, and a vault that is created has no key.  A key is added
\* only by a handling of an init event whose vault.CreateKey call succeeded,
\* which is only made when the first vault holds an exchange signing key:
\* that handling adds exactly one key, of spec C25519.  The handlings of
\* created, completion and registration events add none.
C22_KeysOnlyGrow == [][C22_Step]_vars

\* a handling of an init event has added its single-use key behind the
\* exchange signing key of the vault
C22_Witness ==
    /\ last.op = "kexInit"
    /\ Succeeded(last.calls, "CreateKey")
    /\ Len(vaults[1][1].keys) = 2
    /\ NamedExchangeSigningKey(vaults[1][1].keys[1])
    /\ vaults[1][1].keys[2].spec = Ptr("C25519")

----------------------------------------------------------------------------
(* The service tokens of a handling, checked under RegSpec                 *)

\* the calls of a handling to the Vault Service and the Ledger Service
ServiceCalls ==
    {"CreateVault", "ListVaults", "ListKeys", "CreateKey", "SignMessage",
     "ListContracts", "CreateWallet", "GetContractDetails", "ExecuteContract"}

\* C23: every token a handling presents to the Vault Service or the Ledger
\* Service is for an organization or for an application, and the handling
\* itself has vended it before the call; none comes from the tokens table.
C23_TokensMintedPerHandling ==
    \A i \in 1..Len(last.calls) :
       last.calls[i].call \in ServiceCalls =>
          /\ last.calls[i].token.sub \in {"organization", "application"}
          /\ last.calls[i].token.origin = "vend"
          /\ \E j \in 1..(i - 1) :
                /\ last.calls[j].call = "Vend"
                /\ last.calls[j].ok
                /\ last.calls[j].token = last.calls[i].token

----------------------------------------------------------------------------
(* The end of a message, checked under DeliveryLimitSpec                   *)

\* the broker delivers the message no more: a handler has acknowledged it,
\* or it has been delivered ten times
Terminal == broker.acked \/ broker.delivered = 10

\* what is left to a message: deliveries, handlers that have not returned,
\* seconds of the ack wait
Remaining(b) ==
    <<10 - b.delivered,
      Cardinality({d \in 1..Len(b.handlings) : b.handlings[d].pc = "inflight"}),
      AckWait(b.subject) - b.since>>

\* the lexicographic order of what is left
Less(a, b) ==
    \/ a[1] < b[1]
    \/ a[1] = b[1] /\ a[2] < b[2]
    \/ a[1] = b[1] /\ a[2] = b[2] /\ a[3] < b[3]

C24_State ==
    /\ broker.delivered <= 10
    /\ broker.subject = "kexComplete" => ~broker.acked
    /\ ~Terminal => ENABLED DeliveryLimitNext
    /\ \A i \in 1..3 : Remaining(broker)[i] >= 0

C24_Step == Less(Remaining(broker'), Remaining(broker))

\* C24: a message is delivered at most ten times, whatever its subject, and
\* a completion event is never acknowledged.  Every message comes to its
\* end, acknowledged or delivered ten times: until then something can
\* always happen to it (a delivery, the return of a handler, the passing of
\* the ack wait), a negative acknowledgment or a missing signal only brings
\* the next delivery, and every step uses up a delivery, a running handler
\* or a second of the ack wait, of which there are finitely many.
C24_EveryMessageEnds == []C24_State /\ [][C24_Step]_vars

\* a completion event has been delivered ten times, every handling has
\* returned, and the broker holds no acknowledgment
C24_Witness ==
    /\ broker.subject = "kexComplete"
    /\ broker.delivered = 10
    /\ InFlight = {}
    /\ ~broker.acked
    /\ broker.naked

----------------------------------------------------------------------------
(* The failures of the Registration Coordinator, checked under RegSpec     *)

\* the calls of the handling that returned an error, the contract execution
\* apart
FailedSteps(l) ==
    {i \in 1..Len(l.calls) : ~l.calls[i].ok /\ l.calls[i].call # "ExecuteContract"}

\* C25: a registration handling in which a step other than the contract
\* execution failed is negatively acknowledged; so is one whose trailing
\* update of the organization failed.
C25_AnyFailureNaks ==
    (last.op = "registration" /\ FailedSteps(last) # {}) => last.outcome = "Nak"

----------------------------------------------------------------------------
(* Re-resolution at handling time, checked under RefetchSpec *)

\* the handler of delivery d returns in this step
Returns(d) ==
    /\ broker.handlings[d].pc = "inflight"
    /\ broker'.handlings[d].pc = "done"

\* a handling published a completion event for the pair of the init event
PublishedCompletion(h, msg) ==
    \E i \in 1..Len(h.calls) :
       /\ h.calls[i].call = "Publish" /\ h.calls[i].ok
       /\ h.calls[i].arg[1] = "ident.organization.keys.exchange.complete"
       /\ h.calls[i].arg[2].organization_id = msg.organization_id
       /\ h.calls[i].arg[2].peer_organization_id = msg.peer_organization_id

C26_Step ==
    \A d \in 1..Len(broker.handlings) :
       Returns(d) =>
         LET h == broker'.handlings[d]
             t == Target(broker.msg)
         IN
         /\ organizations[t] = Nil =>
               /\ h.outcome = "Nak"
               /\ \A i \in 1..Len(h.calls) : h.calls[i].call = "db.Find"
               /\ <<organizations', vaults', wallets'>> = <<organizations, vaults, wallets>>
         /\ (organizations[t] # Nil /\ FaultFree(h) /\ broker.subject = "kexInit") =>
               IF HasExchangeSigningKey(vaults, t)
               THEN h.outcome = "Ack" /\ PublishedCompletion(h, broker.msg)
               ELSE h.outcome = "Nak" /\ PublishCalls(h.calls) = <<>> /\ vaults' = vaults
         /\ (organizations[t] # Nil /\ FaultFree(h) /\ broker.subject = "registration") =>
               IF MissingFields(t) = {} THEN h.outcome = "Ack" ELSE h.outcome = "Nak"

\* C26: the outcome of a handling is decided by the organization, the vault
\* and the keys as they are when the handler runs, whatever they were at the
\* earlier deliveries of the event: for an organization whose row is gone
\* it is a Nak without a collaborator call or a write; for an init event,
\* every collaborator answering, it is an Ack with a published completion
\* event exactly when the first vault now holds the exchange signing key;
\* for a registration event it is an Ack exactly when the four attributes
\* can now be resolved.
C26_ResolvedAtHandlingTime == [][C26_Step]_vars

\* the init event was negatively acknowledged for want of a signing key and,
\* redelivered after the key was created, published and was acknowledged
C26_Witness ==
    /\ broker.subject = "kexInit"
    /\ Len(broker.handlings) >= 2
    /\ broker.handlings[1].outcome = "Nak"
    /\ PublishCalls(broker.handlings[1].calls) = <<>>
    /\ broker.handlings[2].cause = "nak"
    /\ broker.handlings[2].outcome = "Ack"
    /\ PublishedCompletion(broker.handlings[2], broker.msg)

----------------------------------------------------------------------------
(* Claims about the user API, checked under UserSpec *)

\* a create request with first name, last name, a well-formed email, a
\* password and nothing else
WellFormedCreate(params) ==
    /\ params.json
    /\ IsString(params.first_name) /\ IsString(params.last_name)
    /\ IsString(params.email) /\ ValidateFormat(params.email.v)
    /\ IsString(params.password) /\ params.password.v # <<>>
    /\ params.permissions.t = "absent"

C27_Step ==
    (/\ last'.op = "createUser" /\ last.op = "none"
     /\ last'.bearer = Nil
     /\ WellFormedCreate(last'.params)
     /\ FirstByEmail(users, last'.params.email.v) = 0
     /\ \E i \in UserIds : users[i] = Nil)
    => /\ last'.status = 201
       /\ \E id \in UserIds :
             /\ users[id] = Nil /\ users'[id] # Nil
             /\ last'.body = AsResponse(id, Deref(users'[id]))
             /\ last'.body.first_name = last'.params.first_name.v
             /\ last'.body.last_name = last'.params.last_name.v
             /\ last'.body.email = ToLower(last'.params.email.v)

\* C27: a create-user request without token that carries a first name, a
\* last name, a password and a well-formed email no user holds is answered
\* with 201 and the user, and the user is then in the users table.
C27_CreateUser == [][C27_Step]_vars


\* an authentication request without token that carries email and password
Credentials(l) ==
    /\ l.op = "authenticate" /\ l.bearer = Nil /\ ~l.fault
    /\ l.params.json /\ IsString(l.params.email) /\ IsString(l.params.password)

\* the answer carries a token
TokenReturned(l) == l.status = 201 /\ l.body.token # Nil

\* C28: for a user with the default permissions whose password was hashed
\* from p, an authentication with the user's email and p is answered with
\* 201 and a token, and one with the email and a password other than p is
\* answered with an error and no token.
C28_Authentication ==
    Credentials(last) =>
      LET id == FirstByEmail(users, last.params.email.v) IN
      (id # 0 /\ Deref(users[id]).permissions = DefaultUserPermission) =>
         \A p \in Passwords :
            Deref(users[id]).password = Ptr(GenerateFromPassword(p)) =>
               IF last.params.password.v = p THEN TokenReturned(last)
               ELSE last.status = 401


\* an update request for the user's own id, carried by a token the
\* authentication vended for a user with the default permissions, with new
\* first name, last name, password and an email no other user holds
OwnUpdate(l) ==
    /\ l.op = "updateUser" /\ ~l.fault
    /\ l.bearer # Nil
    /\ Deref(l.bearer).user_id = Ptr(l.id)
    /\ Deref(l.bearer).permissions = DefaultUserPermission
    /\ users[l.id] # Nil
    /\ l.params.json
    /\ IsString(l.params.first_name) /\ IsString(l.params.last_name)
    /\ IsString(l.params.email) /\ ValidateFormat(l.params.email.v)
    /\ IsString(l.params.password) /\ l.params.password.v # <<>>
    /\ \A j \in UserIds \ {l.id} :
          users[j] # Nil =>
             ToLower(Deref(Deref(users[j]).email)) # ToLower(l.params.email.v)

\* C29: such an update is answered with 204; the details of the user then
\* hold the new first name, last name and email, and the new email and
\* password authenticate the user.
C29_OwnUpdate ==
    OwnUpdate(last) =>
      /\ last.status = 204
      /\ LET deets == userDetailsHandler(last.bearer, last.id) IN
           /\ deets.status = 200
           /\ deets.body.first_name = last.params.first_name.v
           /\ deets.body.last_name = last.params.last_name.v
           /\ deets.body.email = last.params.email.v
      /\ TokenReturned(authenticationHandler(Nil, last.params, "vended"))


\* the answer holds email, first name, last name and name of the user u
DetailsOf(answer, u) ==
    /\ answer.status = 200
    /\ answer.body.email = Deref(u.email)
    /\ answer.body.first_name = Deref(u.first_name)
    /\ answer.body.last_name = Deref(u.last_name)
    /\ answer.body.name = FullName(u)

\* a details request carried by a token of another user that holds neither
\* ListUsers nor Sudo
ForeignDetails(l) ==
    /\ l.op = "userDetails"
    /\ l.bearer # Nil
    /\ ~HasAnyPermission(Deref(l.bearer), {"ListUsers", "Sudo"})
    /\ Deref(l.bearer).user_id # Nil
    /\ Deref(l.bearer).user_id # Ptr(l.id)

\* C31: a details request for the id of the token's own user is answered
\* with 200 and the email, first name, last name and name of that user, and
\* so it is for the user User.Create just made; a request carried by a
\* token without ListUsers and Sudo whose user id is not the requested id is
\* answered with 403 and no user data.
C31_UserDetails ==
    /\ (/\ last.op = "userDetails"
        /\ last.bearer # Nil
        /\ Deref(last.bearer).user_id = Ptr(last.id)
        /\ users[last.id] # Nil)
       => DetailsOf(last, Deref(users[last.id]))
    /\ (last.op = "User.Create" /\ last.status = 201)
       => LET created == Deref(users[last.id])
              deets == userDetailsHandler(Ptr(UserToken(last.id, created.permissions)),
                                          last.id)
          IN /\ DetailsOf(deets, created)
             /\ deets.body.email = ToLower(last.params.email.v)
             /\ deets.body.first_name = last.params.first_name.v
             /\ deets.body.last_name = last.params.last_name.v
    /\ ForeignDetails(last) => last.status = 403 /\ last.body = "forbidden"

\* C31 witness: a user with the default permissions asked for the details
\* of another user and was refused
C31_Witness ==
    /\ ForeignDetails(last)
    /\ users[last.id] # Nil
    /\ last.status = 403

\* a user read their own, updated, details
C31_OwnDetailsRead ==
    /\ last.op = "userDetails" /\ last.status = 200
    /\ Deref(last.bearer).user_id = Ptr(last.id)
    /\ last.body.first_name = "joey"


----------------------------------------------------------------------------
(* Claims about the organization API, checked under OrganizationApiSpec *)

\* C30: a details request for an organization a user created, carried by a
\* token scoped to that organization, is answered with 200 and the name and
\* the description of that organization.
C30_OrganizationDetails ==
    (/\ last.op = "organizationDetails"
     /\ last.bearer = Ptr(OrgToken(last.id))
     /\ organizations[last.id] # Nil)
    => /\ last.status = 200
       /\ last.body.name = Deref(organizations[last.id]).name
       /\ last.body.description = Deref(organizations[last.id]).description

----------------------------------------------------------------------------
(* The contracts the Registration Coordinator finds, under ContractsSpec   *)

\* what GetContractDetails returns of a listed contract: a registry of
\* either type with or without address, or a contract without type
ListedKinds ==
    ContractKinds \cup
    { [type |-> Ptr("erc1820-registry"), address |-> Nil],
      [type |-> Nil, address |-> Ptr("0xS")] }

ListedContracts == UNION {[1..n -> ListedKinds] : n \in 0..MaxListed}

\* a registration event for organization 1 and application 1 is delivered;
\* the details of the nth listed contract cannot be fetched when fail says so
DeliverListing ==
    /\ Ready
    /\ wallets[1] < MaxWallets
    /\ \E tokens \in StoredTokens, contracts \in ListedContracts,
          fail \in {"none", "GetContractDetails"} :
       \E nth \in (IF fail = "none" \/ contracts = <<>> THEN {1} ELSE 1..Len(contracts)) :
          LET msg == RegistrationMsg(JString(1), JString(1), NoBool)
              r == consumeOrganizationRegistrationMsg(msg, fail, nth, tokens, contracts)
          IN /\ organizations' = r.organizations
             /\ wallets' = r.wallets
             /\ vaults' = r.vaults
             /\ last' = LastOfRegistration(msg, r, tokens, contracts)
             /\ UNCHANGED <<users, issued, appOrgs, appConfig, broker, fanout,
                            vaultCreations>>

\* organization 1 has domain and messaging endpoint in its metadata and, in
\* its first vault, a secp256k1 key with an address and a babyJubJub key
\* with a public key
ContractsInit ==
    /\ organizations =
          [o \in OrgIds |->
              IF o = 1
              THEN Ptr([name |-> Ptr("acme"),
                        metadata |-> [address |-> Nil, domain |-> Ptr("acme.org"),
                                      messaging_endpoint |-> Ptr("nats://acme")]])
              ELSE Nil]
    /\ vaults =
          [o \in OrgIds |->
              IF o = 1
              THEN <<[name |-> <<"external", " vault">>,
                      keys |-> <<Key(17, Nil, Ptr("secp256k1"), Ptr("0xA"), Ptr(<<7, 8>>)),
                                 Key(18, Nil, Ptr("babyJubJub"), Nil, Ptr(<<9, 9>>))>>]>>
              ELSE <<>>]
    /\ wallets = [o \in OrgIds |-> 0]
    /\ appOrgs = {}
    /\ appConfig = NoBool
    /\ fanout = NoFanout
    /\ vaultCreations = [o \in OrgIds |-> 0]
    /\ broker = NoBroker
    /\ last = NoOp
    /\ users = NoUsers
    /\ issued = {}

ContractsNext == DeliverListing \/ Return

ContractsSpec == ContractsInit /\ [][ContractsNext]_vars

\* the type and the address of the listed contract i
IsRegistry(contracts, i, type) ==
    /\ i \in 1..Len(contracts)
    /\ contracts[i].type = Ptr(type)
    /\ contracts[i].address # Nil

\* C36: the contract a registration handling executes is listed for the
\* application of the event, has the type organization-registry and an
\* address, and is the last listed of that type; an erc1820-registry with an
\* address was listed too; a handling that could not fetch the details of a
\* listed contract is negatively acknowledged and executes nothing.
C36_ExecutedContract ==
    last.op = "registration" =>
      LET executions == CallsTo(last.calls, "ExecuteContract")
          listings == CallsTo(last.calls, "ListContracts")
          details == CallsTo(last.calls, "GetContractDetails")
      IN
      /\ executions # <<>> =>
            LET c == executions[1].arg.contract IN
            /\ Len(executions) = 1
            /\ IsRegistry(last.contracts, c, "organization-registry")
            /\ \A j \in (c + 1)..Len(last.contracts) :
                  last.contracts[j].type # Ptr("organization-registry")
            /\ \E i \in 1..Len(last.contracts) :
                  IsRegistry(last.contracts, i, "erc1820-registry")
            /\ executions[1].token.sub = "application"
            /\ executions[1].token.id = last.msg.application_id.v
            /\ Len(listings) = 1
            /\ listings[1].token = executions[1].token
            /\ listings[1].arg = last.msg.application_id.v
      /\ (\E i \in 1..Len(details) : ~details[i].ok) =>
            /\ last.outcome = "Nak"
            /\ executions = <<>>

\* C36 witness: of two listed organization registries with an address the
\* second was executed, an erc1820 registry being listed before them
C36_Witness ==
    /\ last.op = "registration" /\ last.outcome = "Ack"
    /\ Len(last.contracts) = 3
    /\ IsRegistry(last.contracts, 1, "erc1820-registry")
    /\ IsRegistry(last.contracts, 2, "organization-registry")
    /\ IsRegistry(last.contracts, 3, "organization-registry")
    /\ CallsTo(last.calls, "ExecuteContract")[1].arg.contract = 3

\* the details of the second of three listed contracts could not be fetched
C36_DetailsFailed ==
    /\ last.op = "registration" /\ last.outcome = "Nak"
    /\ Len(last.contracts) = 3
    /\ Len(CallsTo(last.calls, "GetContractDetails")) = 2
    /\ ~CallsTo(last.calls, "GetContractDetails")[2].ok
    /\ wallets[1] = 1

----------------------------------------------------------------------------
(* Associations that are rolled back, checked under RollbackSpec *)

\* the key-exchange goroutine of the association of o has listed its peers
PeersListed(o) == fanout[o].keyExchange.pc \in {"publishing", "returned"}

\* C37: no registration event and no key-exchange-init event has been
\* published for an association whose transaction was rolled back, and the
\* peers a fan-out lists are the organizations the application had when the
\* association was made.
C37_OnlyPersistingAssociations ==
    \A o \in AppOrgIds :
       /\ fanout[o].tx = "rolledback" => PublishCalls(TriggerCalls(fanout, o)) = <<>>
       /\ PeersListed(o) => fanout[o].listed = fanout[o].others

\* the fan-out of a rolled back association ran to its end, with a
\* registration event and init events handed to the broker
C37_PublishedAndRolledBack ==
    \E o \in AppOrgIds :
       /\ fanout[o].tx = "rolledback"
       /\ TriggerComplete(o)
       /\ PublishCalls(fanout[o].registration.calls) # <<>>
       /\ PublishCalls(fanout[o].keyExchange.calls) # <<>>

----------------------------------------------------------------------------
(* The organizations the init events of the trigger name, checked under    *)
(* RollbackSpec                                                            *)

\* the pairs (organization_id, peer_organization_id) of the init events the
\* key-exchange goroutine of o handed to the broker
InitPairs(o) ==
    {<<fanout[o].keyExchange.calls[i].arg[2].organization_id,
       fanout[o].keyExchange.calls[i].arg[2].peer_organization_id>> :
        i \in 1..Len(fanout[o].keyExchange.calls)}

----------------------------------------------------------------------------
(* The stages on their own: organizations are created and the four         *)
(* handlers run, and nobody else creates a vault or a key                  *)

StagesNext ==
    \/ CreateOrganization
    \/ DeliverCreated
    \/ DeliverKexInit
    \/ DeliverKexComplete
    \/ DeliverRegistration
    \/ Return

StagesSpec == ProvisionInit /\ [][StagesNext]_vars

\* C39: while the stages are the only ones to create vaults and keys, every
\* vault is empty, and every handling of a registration event and of a
\* key-exchange-init event ends in a negative-acknowledgment.
C39_NoAckWithoutKeys ==
    /\ \A o \in OrgIds : \A v \in 1..Len(vaults[o]) : vaults[o][v].keys = <<>>
    /\ last.op \in {"registration", "kexInit"} => last.outcome = "Nak"

\* C39 witness: a registration event for an organization with the vault the
\* provisioner created was refused for the missing address
C39_Witness ==
    /\ last.op = "registration" /\ last.outcome = "Nak" /\ last.diag = "address"
    /\ vaultCreations[Target(last.msg)] = 1
    /\ Len(vaults[Target(last.msg)]) = 1

\* an init event for such an organization was refused for the missing
\* signing key
C39_InitRefused ==
    /\ last.op = "kexInit" /\ last.outcome = "Nak" /\ last.diag = "signing key"
    /\ vaultCreations[Target(last.msg)] = 1

----------------------------------------------------------------------------
(* The terminal signal of a handling, checked under RegSpec *)

\* the four handlers of the subscriptions
HandlerOps == {"created", "kexInit", "kexComplete", "registration"}

\* C33: a handling that returned sent one terminal signal, an Ack or a Nak,
\* whatever its path, a recovered panic included.
C33_OneTerminalSignal ==
    last.op \in HandlerOps => last.outcome \in {"Ack", "Nak"}

\* the handlings that sent no signal are those whose contract execution
\* failed
C33_SilentOnlyOnBroadcastFailure ==
    (last.op \in HandlerOps /\ last.outcome \notin {"Ack", "Nak"})
    => /\ last.op = "registration"
       /\ \E i \in 1..Len(last.calls) :
             last.calls[i].call = "ExecuteContract" /\ ~last.calls[i].ok

----------------------------------------------------------------------------
(* The refusals of the Registration Coordinator before its first write,    *)
(* checked under RegSpec                                                   *)

\* what the handler logs when it refuses a malformed event, an unknown
\* organization or a missing attribute
RefusalDiags ==
    {"unmarshal", "organization_id", "application_id", "application uuid", "organization",
     "address", "domain", "messaging_endpoint", "zero-knowledge public key"}

\* the calls of a handling that write: an application token minted, a
\* wallet created, a contract executed, the organization saved
WritingCalls(calls) ==
    {i \in 1..Len(calls) :
        \/ calls[i].call \in {"CreateWallet", "ExecuteContract", "Update"}
        \/ calls[i].call = "Vend" /\ calls[i].token.sub = "application"}

\* a registration handling returns in this step with such a refusal
Refuses ==
    /\ last'.op = "registration" /\ last' # last
    /\ last'.outcome = "Nak"
    /\ last'.diag \in RefusalDiags

C34_Step ==
    Refuses => /\ WritingCalls(last'.calls) = {}
               /\ organizations' = organizations
               /\ wallets' = wallets
               /\ vaults' = vaults

\* C34: a registration delivery refused for a malformed event, an unknown
\* organization or a missing address, domain, messaging endpoint or
\* zero-knowledge public key mints no application token, creates no wallet,
\* executes no contract and leaves the stored organizations as they are.
C34_RefusalWritesNothing == [][C34_Step]_vars

\* C34 witness: a delivery was refused for the missing domain of an
\* organization whose key has an address that its stored metadata lacks
C34_Witness ==
    /\ last.op = "registration" /\ last.outcome = "Nak" /\ last.diag = "domain"
    /\ LET o == last.msg.organization_id.v IN
         /\ AddressMissing(ParseMetadata(Deref(organizations[o])))
         /\ ResolveAddress(ListKeys(vaults[o][1].keys, "secp256k1")) # Nil

----------------------------------------------------------------------------
(* The address the Registration Coordinator submits and the one it stores, *)
(* checked under RegSpec                                                   *)

\* the address argument of the contract execution of a handling
SubmittedAddress(calls) == CallsTo(calls, "ExecuteContract")[1].arg.params[1]

\* C35: when a registration delivery is acknowledged, the address in the
\* stored metadata of the organization is the address the delivery
\* submitted to the organization registry.
C35_StoredAddressIsSubmitted ==
    (last.op = "registration" /\ last.outcome = "Ack")
    => ParseMetadata(Deref(organizations[last.msg.organization_id.v])).address
         = Ptr(SubmittedAddress(last.calls))

\* it is, when the update of the organization was made and succeeded
C35_StoredWhenSaved ==
    (/\ last.op = "registration" /\ last.outcome = "Ack"
     /\ \E i \in 1..Len(last.calls) : last.calls[i].call = "Update" /\ last.calls[i].ok)
    => ParseMetadata(Deref(organizations[last.msg.organization_id.v])).address
         = Ptr(SubmittedAddress(last.calls))

\* an acknowledged delivery that made no update left another address stored
C35_StaleAddress ==
    /\ last.op = "registration" /\ last.outcome = "Ack"
    /\ CallsTo(last.calls, "Update") = <<>>
    /\ ParseMetadata(Deref(organizations[last.msg.organization_id.v])).address
         # Ptr(SubmittedAddress(last.calls))

----------------------------------------------------------------------------
(* Permission.Has on masks, under PermissionSpec *)

\* the flags the masks of this specification are made of: bits 0x1,
\* 0x100000, 0x400000 and 0x20000000
PermissionFlags == {"Authenticate", "ListUsers", "UpdateUser", "Sudo"}

\* a mask p and a mask flags are given
PermissionInit ==
    /\ organizations = [o \in OrgIds |-> Nil]
    /\ vaults = [o \in OrgIds |-> <<>>]
    /\ wallets = [o \in OrgIds |-> 0]
    /\ appOrgs = {}
    /\ appConfig = NoBool
    /\ fanout = NoFanout
    /\ vaultCreations = [o \in OrgIds |-> 0]
    /\ broker = NoBroker
    /\ users = NoUsers
    /\ issued = {}
    /\ \E p \in SUBSET PermissionFlags, flags \in SUBSET PermissionFlags :
          last = [op |-> "masks", p |-> p, flags |-> flags, result |-> FALSE]

\* p.Has(flags)
CallHas ==
    /\ last.op = "masks"
    /\ last' = [last EXCEPT !.op = "Has", !.result = Has(last.p, last.flags)]
    /\ UNCHANGED <<users, issued, organizations, vaults, wallets, appOrgs, appConfig,
                   fanout, vaultCreations, broker>>

PermissionNext == CallHas

PermissionSpec == PermissionInit /\ [][PermissionNext]_vars

\* C32: p.Has(flags) is true exactly when every flag set in flags is set
\* in p.
C32_HasEveryFlag ==
    last.op = "Has" => (last.result <=> last.flags \subseteq last.p)

\* Has is true exactly when p and flags share a flag
C32_HasSomeFlag ==
    last.op = "Has" => (last.result <=> \E f \in last.flags : f \in last.p)

\* Has answered true for a mask that holds one of two flags asked for
C32_PartialMask ==
    /\ last.op = "Has" /\ last.result
    /\ last.p = {"Authenticate"} /\ last.flags = {"Authenticate", "Sudo"}

----------------------------------------------------------------------------
(* Reset-password tokens, under ResetSpec *)

\* a reset with token t and a password in its body is answered 204
Accepted(t) ==
    \E password \in ResetPasswords :
       userResetPasswordHandler(t, UserParams(NoStr, NoStr, NoStr, JString(password),
                                              NoPermissions), TRUE).status = 204

\* every reset with token t and a password in its body is refused as an
\* invalid reset token and writes nothing
Rejected(t) ==
    \A password \in ResetPasswords, ok \in BOOLEAN :
       LET r == userResetPasswordHandler(t, UserParams(NoStr, NoStr, NoStr,
                                                       JString(password), NoPermissions), ok)
       IN r.status = 422 /\ r.body = "invalid reset token" /\ r.users = users

\* a token created later for the user of t has been handed out
Superseded(t) == \E n \in issued : n.sub = t.sub /\ n.jti > t.jti

\* C40: a reset-password token is accepted at most once: when a reset with
\* token t has been answered 204, and when a newer token has been created
\* for the user of t, every reset with t is refused as an invalid reset
\* token and leaves the password as it is.
C40_TokenAcceptedOnce ==
    /\ (last.op = "resetPassword" /\ last.status = 204) => Rejected(last.token)
    /\ \A t \in issued : Superseded(t) => Rejected(t)

\* a reset that set a password that is not empty, and a newer token, leave
\* the token refused
C40_RefusedAfterPassword ==
    /\ (/\ last.op = "resetPassword" /\ last.status = 204
        /\ last.params.password.v # <<>>) => Rejected(last.token)
    /\ \A t \in issued : Superseded(t) => Rejected(t)

\* a token that is refused stays refused
C40_RefusedStaysRefused ==
    [][\A t \in issued : (users[t.sub[2]] # Nil /\ Rejected(t)) => Rejected(t)']_vars

\* a reset with the empty password was answered 204, the user has no
\* password, and the token of the reset is accepted again
C40_AcceptedAgain ==
    /\ last.op = "resetPassword" /\ last.status = 204
    /\ Deref(users[last.token.sub[2]]).password = Nil
    /\ Accepted(last.token)

====
